---- MODULE Spec2Model ----
(***************************************************************************)
(* DevAssist (sachkeeratb/jamhacks): the AIClient of the web application,  *)
(* its three methods with a remote path and the local engines they fall    *)
(* back to.                                                                *)
(*                                                                         *)
(* Source text is modelled as a finite set of code fragments, joined by    *)
(* newlines in the order in which FragmentTable lists them.  A test of the *)
(* code on the text (includes, RegExp.test, match) is decided fragment by  *)
(* fragment: FragmentTable records, for each fragment, its length, the     *)
(* literals of the code found in its lower-cased form and in its raw form, *)
(* the named patterns of the code that match it, and the number of matches *)
(* of the patterns the code counts.  Within the vocabularies used, no      *)
(* literal or pattern matches across the newline between two fragments,    *)
(* except the recursion pattern of localEcoAnalysis, whose matches across  *)
(* fragments are listed in RecursionAcross.                                *)
(*                                                                         *)
(* A fragment is named by its content.  In a name, "[xN]" stands for N     *)
(* lines with "#" replaced by 1..N, "<pad:N>" for N characters matched by  *)
(* no test, "<lines:N>" for N newlines, and the two "for (i) { for (j)"    *)
(* fragments for loops written one statement and one brace per line.       *)
(* Confidence levels are counted in tenths.                                *)
(***************************************************************************)
EXTENDS Integers, Sequences, FiniteSets, TLC

VARIABLES
  request,          \* localSecurityAnalysis: the text under analysis
  pc,               \* localSecurityAnalysis: position in the function
  language,         \* localSecurityAnalysis: let language
  confidenceLevel,  \* localSecurityAnalysis: let confidenceLevel, in tenths
  riskLevel,        \* localSecurityAnalysis: let riskLevel
  threats,          \* localSecurityAnalysis: const threats
  recommendations,  \* localSecurityAnalysis: const recommendations
  applied,          \* the checks applied so far, when their order is free
  code,             \* localEcoAnalysis: the text under analysis
  ecoPc,            \* localEcoAnalysis: position in the function
  ecoLanguage,      \* localEcoAnalysis: let language
  baseScore,        \* localEcoAnalysis: let baseScore
  ecoScore,         \* localEcoAnalysis: let ecoScore
  issues,           \* localEcoAnalysis: const issues
  suggestions,      \* localEcoAnalysis: const suggestions
  apiKey,           \* AIClient: this.apiKey
  call,             \* the method called on the client and its argument
  callPc,           \* position of the call: idle, fetch, json, local, done
  fetched,          \* the requests the call has posted
  response,         \* what fetch settled with
  result,           \* what the call returns
  path,             \* which path produced the result: local or remote
  views,            \* useAI and apiKey of each view of the application
  analysis,         \* the view whose handler called the client, and whether
                    \* AI-enhanced analysis was on with a key when it did
  reports,          \* the reports the local engines have returned, by engine
                    \* and text: the first one returned for each
  files,            \* VectorStore: this.files
  searched,         \* the last call of search or of getFiles: its arguments,
                    \* the store it met and what it returned
  args,             \* the arguments of a function called on its own
  returnValue,      \* what that function returned
  selections,       \* CodeIntelligence: the invocations of handleFolderSelect,
                    \* each with its files, its position in them, its
                    \* loadedFilesArray and the await it stands at
  loadedFiles       \* CodeIntelligence: the React state loadedFiles

secVars == <<request, pc, language, confidenceLevel, riskLevel, threats,
             recommendations>>

ecoVars == <<code, ecoPc, ecoLanguage, baseScore, ecoScore, issues,
             suggestions>>

clientVars == <<apiKey, call, callPc, fetched, response, result, path>>

uiVars == <<views, analysis>>

storeVars == <<files, searched>>

pureVars == <<args, returnValue>>

folderVars == <<selections, loadedFiles>>

auxVars == <<reports, storeVars, pureVars, folderVars>>

vars == <<secVars, applied, ecoVars, clientVars, uiVars, auxVars>>

(***************************************************************************)
(* Bounds                                                                  *)
(***************************************************************************)
\* largest number of fragments in one analysed text
MaxFrags == 3

(***************************************************************************)
(* Source text                                                             *)
(***************************************************************************)
\* the fragments the texts given to localSecurityAnalysis are built from
SecFrags ==
  {"fn main() { use std::io;", "public static void main(String[] args)",
   "def run(): import os", "const x = 1;", "#include <stdio.h>",
   "app.get('/users')", "res.header('Access-Control-Allow-Origin', '*')",
   "jwt.verify()", "sanitize(x)", "req.body", "password", "bcrypt",
   "logger.info(email)", "try {", "select * from users",
   "el.innerHTML = html", "https://example.com", "helmet()", "'x9k2m4p7q1'",
   "findById(id)", "exec(args)", "eval(code)", "unsafe {", "*mut u8",
   "#[no_mangle]", ".unwrap()", "document.cookie", "localStorage",
   "postMessage", "event.origin", "pickle.loads(data)", "importlib", "flask",
   "csrf", "debug = true", "<pad:100>", "<pad:1000>"}

\* the fragments the texts given to localEcoAnalysis are built from
EcoFrags ==
  {"fn main() { use std::io;", "public static void main(String[] args)",
   "def run(): import os", "const x = 1;", "#include <stdio.h>",
   "x = 1; [x4]", "y = 2; [x9]", "function f1() {} [x2]",
   "llm = load('model.onnx', cache=True)", "openai", "token",
   "for (i) { for (j) { } }", "for (i) { for (j) { a; b; c; } }",
   "function fact(n) { return fact(n - 1); }", "out = a# + \"s\"; [x6]",
   "bcrypt", "loadImage()", "document.querySelectorAll('a').forEach(f)",
   "el.appendChild(c#); [x11]", "useState(#); [x6]", "useMemo(f)",
   "xs += [x]", "threading.Thread(); while True:",
   "pd.read_csv(p).iterrows()", "String s# += x; [x4]", "new Foo#(); [x21]",
   "List<String> xs; for (String x : xs) {}",
   "for x in xs { s.to_string(); }", "v#.clone(); [x6]", "&mut v",
   "unsafe {", "async fn f() { a.await; b.await; c.await; d.await; }",
   "malloc(n#); [x3]", "malloc(n * sizeof(int))", "str# += t; [x6]",
   "<pad:5000>", "<pad:10000>", "<lines:499>"}

\* the fragments the texts given to localCodeExplanation are built from
ExplainFrags ==
  {"def run(): import os", "const x = 1;", "#include <stdio.h>",
   "useState(#); [x6]",
   "async fn f() { a.await; b.await; c.await; d.await; }", "<pad:5000>",
   "import React from 'react'", "import fs from 'fs'", "const g = (a) => a;",
   "useEffect(f)", "class B: def __init__(self): pass", "with open(p) as f:",
   "public class A {}", "int main(", "<html>"}

Frags == SecFrags \cup EcoFrags \cup ExplainFrags

\* what the tests of the code find in each fragment: its length, the literals
\* found in its lower-cased and in its raw form, the pattern lists that
\* match it and the number of matches of the patterns the code counts
FragmentTable ==
  [f \in Frags |->
    CASE
      f = "fn main() { use std::io;" ->
        [length |-> 24,
         lower |-> {"fn main", "use std"},
         raw |-> {":", "fn ", "{"},
         regex |-> {},
         count |-> <<>>]
      []
      f = "public static void main(String[] args)" ->
        [length |-> 38,
         lower |-> {"args", "id", "public static void main"},
         raw |-> {},
         regex |-> {"stringWord"},
         count |-> [functionMatches |-> 1]]
      []
      f = "def run(): import os" ->
        [length |-> 20,
         lower |-> {"def ", "import "},
         raw |-> {":", "def ", "import "},
         regex |-> {},
         count |-> [functionMatches |-> 1]]
      []
      f = "const x = 1;" ->
        [length |-> 12,
         lower |-> {"const "},
         raw |-> {"=", "const "},
         regex |-> {"ecoJsSignature"},
         count |-> <<>>]
      []
      f = "#include <stdio.h>" ->
        [length |-> 18,
         lower |-> {"#include"},
         raw |-> {"#include"},
         regex |-> {},
         count |-> <<>>]
      []
      f = "app.get('/users')" ->
        [length |-> 17,
         lower |-> {},
         raw |-> {},
         regex |-> {"apiEndpointPatterns"},
         count |-> <<>>]
      []
      f = "res.header('Access-Control-Allow-Origin', '*')" ->
        [length |-> 46,
         lower |-> {"origin"},
         raw |-> {},
         regex |-> {"corsPatterns", "permissiveCorsHeader",
           "permissiveCorsStar"},
         count |-> <<>>]
      []
      f = "jwt.verify()" ->
        [length |-> 12,
         lower |-> {},
         raw |-> {},
         regex |-> {"authPatterns"},
         count |-> <<>>]
      []
      f = "sanitize(x)" ->
        [length |-> 11,
         lower |-> {},
         raw |-> {},
         regex |-> {"validationPatterns"},
         count |-> <<>>]
      []
      f = "req.body" ->
        [length |-> 8,
         lower |-> {"req.body"},
         raw |-> {},
         regex |-> {"inputPatterns"},
         count |-> <<>>]
      []
      f = "password" ->
        [length |-> 8,
         lower |-> {"password"},
         raw |-> {},
         regex |-> {"sensitiveDataPatterns"},
         count |-> <<>>]
      []
      f = "bcrypt" ->
        [length |-> 6,
         lower |-> {},
         raw |-> {},
         regex |-> {"encryptionPatterns", "energyIntensive"},
         count |-> <<>>]
      []
      f = "logger.info(email)" ->
        [length |-> 18,
         lower |-> {},
         raw |-> {},
         regex |-> {"loggingPatterns", "sensitiveDataPatterns",
           "sensitiveLoggingRisk"},
         count |-> <<>>]
      []
      f = "try {" ->
        [length |-> 5,
         lower |-> {},
         raw |-> {"{"},
         regex |-> {"errorHandlingPatterns"},
         count |-> <<>>]
      []
      f = "select * from users" ->
        [length |-> 19,
         lower |-> {"select"},
         raw |-> {"from "},
         regex |-> {},
         count |-> <<>>]
      []
      f = "el.innerHTML = html" ->
        [length |-> 19,
         lower |-> {"innerhtml"},
         raw |-> {"="},
         regex |-> {"frontendInnerHtml"},
         count |-> [domOperations |-> 1]]
      []
      f = "https://example.com" ->
        [length |-> 19,
         lower |-> {},
         raw |-> {":", "http"},
         regex |-> {},
         count |-> <<>>]
      []
      f = "helmet()" ->
        [length |-> 8,
         lower |-> {},
         raw |-> {},
         regex |-> {"secureHeadersPatterns"},
         count |-> <<>>]
      []
      f = "'x9k2m4p7q1'" ->
        [length |-> 12,
         lower |-> {},
         raw |-> {},
         regex |-> {"credentialLiteral"},
         count |-> <<>>]
      []
      f = "findById(id)" ->
        [length |-> 12,
         lower |-> {"findbyid", "id"},
         raw |-> {},
         regex |-> {},
         count |-> <<>>]
      []
      f = "exec(args)" ->
        [length |-> 10,
         lower |-> {"args", "exec("},
         raw |-> {},
         regex |-> {},
         count |-> <<>>]
      []
      f = "eval(code)" ->
        [length |-> 10,
         lower |-> {"eval("},
         raw |-> {},
         regex |-> {},
         count |-> <<>>]
      []
      f = "unsafe {" ->
        [length |-> 8,
         lower |-> {"unsafe "},
         raw |-> {"unsafe", "{"},
         regex |-> {},
         count |-> <<>>]
      []
      f = "*mut u8" ->
        [length |-> 7,
         lower |-> {"*mut "},
         raw |-> {},
         regex |-> {},
         count |-> <<>>]
      []
      f = "#[no_mangle]" ->
        [length |-> 12,
         lower |-> {"#[no_mangle]"},
         raw |-> {},
         regex |-> {},
         count |-> <<>>]
      []
      f = ".unwrap()" ->
        [length |-> 9,
         lower |-> {".unwrap()"},
         raw |-> {},
         regex |-> {},
         count |-> <<>>]
      []
      f = "document.cookie" ->
        [length |-> 15,
         lower |-> {"document.cookie"},
         raw |-> {},
         regex |-> {},
         count |-> <<>>]
      []
      f = "localStorage" ->
        [length |-> 12,
         lower |-> {},
         raw |-> {},
         regex |-> {"frontendStorage"},
         count |-> <<>>]
      []
      f = "postMessage" ->
        [length |-> 11,
         lower |-> {},
         raw |-> {},
         regex |-> {"frontendPostMessage"},
         count |-> <<>>]
      []
      f = "event.origin" ->
        [length |-> 12,
         lower |-> {"origin"},
         raw |-> {},
         regex |-> {},
         count |-> <<>>]
      []
      f = "pickle.loads(data)" ->
        [length |-> 18,
         lower |-> {"pickle.loads"},
         raw |-> {},
         regex |-> {"mediaProcessing"},
         count |-> <<>>]
      []
      f = "importlib" ->
        [length |-> 9,
         lower |-> {"importlib"},
         raw |-> {},
         regex |-> {},
         count |-> <<>>]
      []
      f = "flask" ->
        [length |-> 5,
         lower |-> {"flask"},
         raw |-> {},
         regex |-> {},
         count |-> <<>>]
      []
      f = "csrf" ->
        [length |-> 4,
         lower |-> {"csrf"},
         raw |-> {},
         regex |-> {},
         count |-> <<>>]
      []
      f = "debug = true" ->
        [length |-> 12,
         lower |-> {"debug", "true"},
         raw |-> {"="},
         regex |-> {"loggingPatterns"},
         count |-> <<>>]
      []
      f = "<pad:100>" ->
        [length |-> 100,
         lower |-> {},
         raw |-> {},
         regex |-> {},
         count |-> <<>>]
      []
      f = "<pad:1000>" ->
        [length |-> 1000,
         lower |-> {},
         raw |-> {},
         regex |-> {},
         count |-> <<>>]
      []
      f = "x = 1; [x4]" ->
        [length |-> 27,
         lower |-> {},
         raw |-> {"="},
         regex |-> {},
         count |-> [redundancyCount |-> 1, newlines |-> 3]]
      []
      f = "y = 2; [x9]" ->
        [length |-> 62,
         lower |-> {},
         raw |-> {"="},
         regex |-> {},
         count |-> [redundancyCount |-> 6, newlines |-> 8]]
      []
      f = "function f1() {} [x2]" ->
        [length |-> 33,
         lower |-> {},
         raw |-> {"function", "{", "}"},
         regex |-> {"recursion"},
         count |-> [duplicateFunctions |-> 1, newlines |-> 1,
           functionMatches |-> 2]]
      []
      f = "llm = load('model.onnx', cache=True)" ->
        [length |-> 36,
         lower |-> {"true"},
         raw |-> {"="},
         regex |-> {"aiEfficient", "aiPatterns", "localModelUsage",
           "mediaProcessing"},
         count |-> <<>>]
      []
      f = "openai" ->
        [length |-> 6,
         lower |-> {},
         raw |-> {},
         regex |-> {"aiPatterns"},
         count |-> <<>>]
      []
      f = "token" ->
        [length |-> 5,
         lower |-> {"token"},
         raw |-> {},
         regex |-> {"aiPatterns", "authPatterns", "remoteApi"},
         count |-> <<>>]
      []
      f = "for (i) { for (j) { } }" ->
        [length |-> 59,
         lower |-> {},
         raw |-> {"=", "{", "}"},
         regex |-> {"forEachMap", "forWhile"},
         count |-> [loopMatches |-> 2, nestedLoopCount |-> 1, newlines |-> 3,
           functionMatches |-> 2]]
      []
      f = "for (i) { for (j) { a; b; c; } }" ->
        [length |-> 86,
         lower |-> {},
         raw |-> {"=", "{", "}"},
         regex |-> {"forEachMap", "forWhile"},
         count |-> [loopMatches |-> 2, nestedLoopCount |-> 4, newlines |-> 6,
           functionMatches |-> 2]]
      []
      f = "function fact(n) { return fact(n - 1); }" ->
        [length |-> 40,
         lower |-> {},
         raw |-> {"function", "return", "{", "}"},
         regex |-> {"recursion"},
         count |-> [functionMatches |-> 1]]
      []
      f = "out = a# + \"s\"; [x6]" ->
        [length |-> 95,
         lower |-> {},
         raw |-> {"="},
         regex |-> {},
         count |-> [plusQuote |-> 6, newlines |-> 5]]
      []
      f = "loadImage()" ->
        [length |-> 11,
         lower |-> {},
         raw |-> {},
         regex |-> {"mediaKind", "mediaProcessing"},
         count |-> <<>>]
      []
      f = "document.querySelectorAll('a').forEach(f)" ->
        [length |-> 41,
         lower |-> {"select"},
         raw |-> {"document.querySelectorAll"},
         regex |-> {"forEachMap", "forWhile"},
         count |-> [loopMatches |-> 1, domOperations |-> 1]]
      []
      f = "el.appendChild(c#); [x11]" ->
        [length |-> 221,
         lower |-> {},
         raw |-> {"end"},
         regex |-> {},
         count |-> [domOperations |-> 11, newlines |-> 10]]
      []
      f = "useState(#); [x6]" ->
        [length |-> 77,
         lower |-> {},
         raw |-> {"useState"},
         regex |-> {},
         count |-> [stateUpdates |-> 6, newlines |-> 5]]
      []
      f = "useMemo(f)" ->
        [length |-> 10,
         lower |-> {},
         raw |-> {},
         regex |-> {},
         count |-> [memoization |-> 1]]
      []
      f = "xs += [x]" ->
        [length |-> 9,
         lower |-> {},
         raw |-> {"+= [", "="},
         regex |-> {},
         count |-> [plusEq |-> 1]]
      []
      f = "threading.Thread(); while True:" ->
        [length |-> 31,
         lower |-> {"true"},
         raw |-> {":", "threading", "while True"},
         regex |-> {"forWhile"},
         count |-> <<>>]
      []
      f = "pd.read_csv(p).iterrows()" ->
        [length |-> 25,
         lower |-> {},
         raw |-> {"pd."},
         regex |-> {"inefficientPandas"},
         count |-> <<>>]
      []
      f = "String s# += x; [x4]" ->
        [length |-> 63,
         lower |-> {},
         raw |-> {"="},
         regex |-> {"stringWord"},
         count |-> [stringPlusEq |-> 4, plusEq |-> 4, newlines |-> 3]]
      []
      f = "new Foo#(); [x21]" ->
        [length |-> 263,
         lower |-> {},
         raw |-> {},
         regex |-> {},
         count |-> [newObjects |-> 21, allocations |-> 21, newlines |-> 20]]
      []
      f = "List<String> xs; for (String x : xs) {}" ->
        [length |-> 39,
         lower |-> {},
         raw |-> {":", "List<", "{", "}"},
         regex |-> {"forColon", "forEachMap", "forWhile", "stringWord"},
         count |-> [loopMatches |-> 1]]
      []
      f = "for x in xs { s.to_string(); }" ->
        [length |-> 30,
         lower |-> {},
         raw |-> {"to_string", "{", "}"},
         regex |-> {"forEachMap", "forWhile", "stringWord"},
         count |-> <<>>]
      []
      f = "v#.clone(); [x6]" ->
        [length |-> 71,
         lower |-> {},
         raw |-> {},
         regex |-> {},
         count |-> [clones |-> 6, newlines |-> 5]]
      []
      f = "&mut v" ->
        [length |-> 6,
         lower |-> {},
         raw |-> {"&mut "},
         regex |-> {},
         count |-> <<>>]
      []
      f = "async fn f() { a.await; b.await; c.await; d.await; }" ->
        [length |-> 52,
         lower |-> {},
         raw |-> {"async", "await", "fn ", "{", "}"},
         regex |-> {},
         count |-> [awaits |-> 4]]
      []
      f = "malloc(n#); [x3]" ->
        [length |-> 35,
         lower |-> {},
         raw |-> {},
         regex |-> {},
         count |-> [allocations |-> 3, newlines |-> 2]]
      []
      f = "malloc(n * sizeof(int))" ->
        [length |-> 23,
         lower |-> {},
         raw |-> {},
         regex |-> {"largeBuffer"},
         count |-> [allocations |-> 1]]
      []
      f = "str# += t; [x6]" ->
        [length |-> 65,
         lower |-> {},
         raw |-> {"="},
         regex |-> {"stringWord"},
         count |-> [plusEq |-> 6, newlines |-> 5]]
      []
      f = "<pad:5000>" ->
        [length |-> 5000,
         lower |-> {},
         raw |-> {},
         regex |-> {},
         count |-> <<>>]
      []
      f = "<pad:10000>" ->
        [length |-> 10000,
         lower |-> {},
         raw |-> {},
         regex |-> {},
         count |-> <<>>]
      []
      f = "<lines:499>" ->
        [length |-> 499,
         lower |-> {},
         raw |-> {},
         regex |-> {},
         count |-> [newlines |-> 499]]
      []
      f = "import React from 'react'" ->
        [length |-> 25,
         lower |-> {"import "},
         raw |-> {"React", "from ", "import ", "import React"},
         regex |-> {},
         count |-> <<>>]
      []
      f = "import fs from 'fs'" ->
        [length |-> 19,
         lower |-> {"import "},
         raw |-> {"from ", "import "},
         regex |-> {},
         count |-> <<>>]
      []
      f = "const g = (a) => a;" ->
        [length |-> 19,
         lower |-> {"const "},
         raw |-> {"=", "=>", "const "},
         regex |-> {"ecoJsSignature"},
         count |-> [functionMatches |-> 1]]
      []
      f = "useEffect(f)" ->
        [length |-> 12,
         lower |-> {},
         raw |-> {"useEffect"},
         regex |-> {},
         count |-> <<>>]
      []
      f = "class B: def __init__(self): pass" ->
        [length |-> 33,
         lower |-> {"class ", "def "},
         raw |-> {":", "class", "class ", "def ", "def __init__"},
         regex |-> {},
         count |-> [functionMatches |-> 1, classMatches |-> 1]]
      []
      f = "with open(p) as f:" ->
        [length |-> 18,
         lower |-> {},
         raw |-> {":", "with "},
         regex |-> {},
         count |-> <<>>]
      []
      f = "public class A {}" ->
        [length |-> 17,
         lower |-> {"class "},
         raw |-> {"class", "class ", "public class ", "{", "}"},
         regex |-> {},
         count |-> [functionMatches |-> 1, classMatches |-> 1]]
      []
      f = "int main(" ->
        [length |-> 9,
         lower |-> {},
         raw |-> {"int main("},
         regex |-> {},
         count |-> <<>>]
      []
      f = "<html>" ->
        [length |-> 6,
         lower |-> {},
         raw |-> {"<html>"},
         regex |-> {},
         count |-> <<>>]
  ]

\* the ordered pairs of fragments across which the recursion pattern of
\* localEcoAnalysis matches although it matches neither of them alone: the
\* name captured in the first is found again, before a parenthesis, in the
\* second
RecursionAcross ==
  {
    <<"async fn f() { a.await; b.await; c.await; d.await; }",
      "malloc(n * sizeof(int))">>,
    <<"def run(): import os",
      "List<String> xs; for (String x : xs) {}">>,
    <<"def run(): import os",
      "for (i) { for (j) { a; b; c; } }">>,
    <<"def run(): import os",
      "for (i) { for (j) { } }">>,
    <<"def run(): import os",
      "res.header('Access-Control-Allow-Origin', '*')">>,
    <<"fn main() { use std::io;",
      "int main(">>,
    <<"fn main() { use std::io;",
      "public static void main(String[] args)">>
  }

\* all subsets of S with at most k elements
RECURSIVE SubsetsUpTo(_, _)
SubsetsUpTo(S, k) ==
  IF k = 0 THEN {{}}
  ELSE LET P == SubsetsUpTo(S, k - 1)
       IN  P \cup {p \cup {x} : p \in P, x \in S}

\* lowercaseCode.includes(s)
includes(text, s) == \E f \in text : s \in FragmentTable[f].lower

\* request.includes(s), case-sensitive
includesRaw(text, s) == \E f \in text : s \in FragmentTable[f].raw

\* some pattern of the named list matches: pattern.test(request)
test(text, patterns) == \E f \in text : patterns \in FragmentTable[f].regex

RECURSIVE SumLengths(_)
SumLengths(text) ==
  IF text = {} THEN 0
  ELSE LET f == CHOOSE x \in text : TRUE
       IN  FragmentTable[f].length + 1 + SumLengths(text \ {f})

\* request.length: the fragments and the newlines between them
length(text) == IF text = {} THEN 0 ELSE SumLengths(text) - 1

(***************************************************************************)
(* AIClient.localSecurityAnalysis                                          *)
(***************************************************************************)
Levels == <<"Low", "Medium", "High", "Critical">>

\* position of a risk level in the order Low < Medium < High < Critical
Rank(level) == CHOOSE i \in 1..4 : Levels[i] = level

\* a detection that looks for JavaScript before Python
detectLanguageJsFirst(text) ==
  IF includes(text, "fn main")
     /\ (includes(text, "impl") \/ includes(text, "struct")
         \/ includes(text, "use std"))
  THEN "rust"
  ELSE IF includes(text, "public static void main") THEN "java"
  ELSE IF includes(text, "console.log") \/ includes(text, "function(")
          \/ includes(text, "const ") \/ includes(text, "let ")
  THEN "javascript"
  ELSE IF includes(text, "def ")
          /\ (includes(text, "import ") \/ includes(text, "class "))
  THEN "python"
  ELSE IF includes(text, "#include") THEN "c/c++"
  ELSE "unknown"

\* let language: the first signature that matches
detectLanguage(text) ==
  IF includes(text, "fn main")
     /\ (includes(text, "impl") \/ includes(text, "struct")
         \/ includes(text, "use std"))
  THEN "rust"
  ELSE IF includes(text, "public static void main") THEN "java"
  ELSE IF includes(text, "def ")
          /\ (includes(text, "import ") \/ includes(text, "class "))
  THEN "python"
  ELSE IF includes(text, "console.log") \/ includes(text, "function(")
          \/ includes(text, "const ") \/ includes(text, "let ")
  THEN "javascript"
  ELSE IF includes(text, "#include") THEN "c/c++"
  ELSE "unknown"

\* a confidence that ignores the size of the text
confidenceBySizeBlind(text, lang) == IF lang # "unknown" THEN 7 ELSE 6

\* let confidenceLevel, in tenths
confidence(text, lang) ==
  LET base == IF lang # "unknown" THEN 7 ELSE 6
  IN  IF length(text) < 100 THEN base - 2
      ELSE IF length(text) > 1000 THEN base + 1
      ELSE base

hasApiEndpoints(text) == test(text, "apiEndpointPatterns")
hasCorsConfig(text) == test(text, "corsPatterns")
permissiveCors(text) ==
  test(text, "permissiveCorsStar") /\ test(text, "permissiveCorsHeader")
hasAuth(text) == test(text, "authPatterns")
hasValidation(text) == test(text, "validationPatterns")
hasUserInput(text) == test(text, "inputPatterns")
hasSensitiveData(text) == test(text, "sensitiveDataPatterns")
hasEncryption(text) == test(text, "encryptionPatterns")
hasLogging(text) == test(text, "loggingPatterns")
sensitiveLoggingRisk(text) == test(text, "sensitiveLoggingRisk")
hasErrorHandling(text) == test(text, "errorHandlingPatterns")
hasSecureHeaders(text) == test(text, "secureHeadersPatterns")

\* the raw-input markers shared by the SQL and XSS checks
rawInput(text) ==
  \/ includes(text, "$_") \/ includes(text, "req.param")
  \/ includes(text, "req.body") \/ includes(text, "req.query")
  \/ includes(text, "input") \/ includes(text, "user_input")

sqlInjection(text) ==
  /\ \/ includes(text, "select") \/ includes(text, "insert")
     \/ includes(text, "update") \/ includes(text, "delete")
  /\ rawInput(text)

xss(text) ==
  /\ includes(text, "innerhtml") \/ includes(text, "document.write")
  /\ rawInput(text)

hardcodedCredentials(text) ==
  /\ \/ includes(text, "password") \/ includes(text, "apikey")
     \/ includes(text, "secret") \/ includes(text, "token")
     \/ includes(text, "pwd") \/ includes(text, "auth")
  /\ test(text, "credentialLiteral")

idor(text) ==
  /\ includes(text, "id")
  /\ \/ includes(text, "findbyid") \/ includes(text, "getbyid")
     \/ includes(text, "find_by_id") \/ includes(text, "get_by_id")

commandInjection(text) ==
  /\ \/ includes(text, "exec(") \/ includes(text, "spawn(")
     \/ includes(text, "system(") \/ includes(text, "eval(")
     \/ includes(text, "command(") \/ includes(text, "process::command")
     \/ includes(text, "shell(") \/ includes(text, "std::process")
  /\ \/ includes(text, "$_") \/ includes(text, "req.param")
     \/ includes(text, "req.body") \/ includes(text, "req.query")
     \/ includes(text, "args") \/ includes(text, "input")
     \/ includes(text, "user_input") \/ includes(text, "var")
     \/ includes(text, "param")

unsafeRust(text, lang) ==
  lang = "rust" /\ (includes(text, "unsafe ") \/ includes(text, "unsafe{"))

\* a raise that replaces whatever level was reached before
lowToAlways(r, level) == level

\* riskLevel === 'Low' ? level : riskLevel
lowTo(r, level) == IF r.riskLevel = "Low" THEN level ELSE r.riskLevel

\* the level kept unless it is Low
lowToElseKept(r, level, other) ==
  IF r.riskLevel = "Low" THEN level ELSE r.riskLevel

\* riskLevel === 'Low' ? level : other
lowToElse(r, level, other) == IF r.riskLevel = "Low" THEN level ELSE other

\* threats.push(threat); riskLevel = level
finding(r, threat, level) ==
  [r EXCEPT !.threats = Append(@, threat), !.riskLevel = level]

\* threats.push(threat); recommendations.push(rec); riskLevel = level
findingRec(r, threat, rec, level) ==
  [r EXCEPT !.threats = Append(@, threat),
            !.recommendations = Append(@, rec), !.riskLevel = level]

\* the checks of localSecurityAnalysis, in the order of the code
Detectors ==
  <<"corsMissing", "corsPermissive", "authentication", "validation",
    "sensitiveData", "sensitiveLogging", "errorHandling", "sqlInjection",
    "xss", "secureHeaders", "hardcodedCredentials", "idor",
    "commandInjection", "rustUnsafe", "rustRawPointers", "rustFfi",
    "rustUnwrap", "jsEval", "jsCookie", "jsInnerHtml", "jsStorage",
    "jsPostMessage", "pyDeserialization", "pyDynamicImport", "pyCsrf",
    "pyDebug">>

\* whether check d matches the text (its if-condition holds)
fires(d, text, lang) ==
  CASE d = "corsMissing" -> hasApiEndpoints(text) /\ ~hasCorsConfig(text)
    [] d = "corsPermissive" -> hasApiEndpoints(text) /\ permissiveCors(text)
    [] d = "authentication" -> hasApiEndpoints(text) /\ ~hasAuth(text)
    [] d = "validation" -> hasUserInput(text) /\ ~hasValidation(text)
    [] d = "sensitiveData" -> hasSensitiveData(text) /\ ~hasEncryption(text)
    [] d = "sensitiveLogging" ->
         hasSensitiveData(text) /\ hasLogging(text)
         /\ sensitiveLoggingRisk(text)
    [] d = "errorHandling" -> hasApiEndpoints(text) /\ ~hasErrorHandling(text)
    [] d = "sqlInjection" -> sqlInjection(text)
    [] d = "xss" -> xss(text)
    [] d = "secureHeaders" ->
         /\ \/ hasApiEndpoints(text) \/ includesRaw(text, "http")
            \/ includesRaw(text, "express")
         /\ ~hasSecureHeaders(text)
    [] d = "hardcodedCredentials" -> hardcodedCredentials(text)
    [] d = "idor" -> idor(text)
    [] d = "commandInjection" -> commandInjection(text)
    [] d = "rustUnsafe" -> unsafeRust(text, lang)
    [] d = "rustRawPointers" ->
         lang = "rust" /\ (includes(text, "*mut ") \/ includes(text, "*const "))
    [] d = "rustFfi" ->
         lang = "rust"
         /\ (includes(text, "extern \"c\"") \/ includes(text, "#[no_mangle]"))
    [] d = "rustUnwrap" ->
         lang = "rust"
         /\ (includes(text, ".unwrap()") \/ includes(text, "panic!"))
    [] d = "jsEval" ->
         lang = "javascript"
         /\ (includes(text, "eval(") \/ includes(text, "new function("))
    [] d = "jsCookie" ->
         lang = "javascript" /\ includes(text, "document.cookie")
    [] d = "jsInnerHtml" ->
         lang = "javascript" /\ test(text, "frontendInnerHtml")
    [] d = "jsStorage" -> lang = "javascript" /\ test(text, "frontendStorage")
    [] d = "jsPostMessage" ->
         lang = "javascript" /\ test(text, "frontendPostMessage")
    [] d = "pyDeserialization" ->
         lang = "python"
         /\ (includes(text, "pickle.loads") \/ includes(text, "marshal.loads"))
    [] d = "pyDynamicImport" ->
         lang = "python"
         /\ (includes(text, "__import__") \/ includes(text, "importlib"))
    [] d = "pyCsrf" ->
         lang = "python"
         /\ (includes(text, "django") \/ includes(text, "flask"))
         /\ ~includes(text, "csrf")
    [] d = "pyDebug" ->
         lang = "python"
         /\ (includes(text, "django") \/ includes(text, "flask"))
         /\ includes(text, "debug") /\ includes(text, "true")

\* the body of check d once its condition holds: the pushes and the
\* assignment to riskLevel
effect(d, r, text) ==
  CASE d = "corsMissing" ->
         findingRec(r, "API endpoints detected without CORS protection",
           "Implement CORS policy to restrict API access to trusted domains",
           lowTo(r, "Medium"))
    [] d = "corsPermissive" ->
         findingRec(r,
           "Overly permissive CORS configuration (Access-Control-Allow-Origin: *)",
           "Restrict CORS to specific trusted origins rather than using wildcard *",
           lowTo(r, "Medium"))
    [] d = "authentication" ->
         findingRec(r, "API endpoints may lack proper authentication",
           "Implement authentication for all API endpoints that access sensitive data",
           lowToElse(r, "Medium", "High"))
    [] d = "validation" ->
         findingRec(r,
           "User input processing without obvious validation/sanitization",
           "Implement input validation and sanitization for all user-provided data",
           lowTo(r, "Medium"))
    [] d = "sensitiveData" ->
         findingRec(r,
           "Handling sensitive data without obvious encryption/protection",
           "Implement encryption for sensitive data both at rest and in transit",
           lowToElse(r, "High", "Critical"))
    [] d = "sensitiveLogging" ->
         findingRec(r, "Potential logging of sensitive information",
           "Ensure sensitive data is redacted or excluded from logs",
           lowTo(r, "Medium"))
    [] d = "errorHandling" ->
         findingRec(r, "API endpoints without proper error handling detected",
           "Implement proper error handling to avoid exposing sensitive stack traces",
           lowTo(r, "Medium"))
    [] d = "sqlInjection" ->
         finding(r, "Potential SQL injection vulnerability detected", "High")
    [] d = "xss" ->
         finding(r,
           "Potential Cross-site Scripting (XSS) vulnerability detected",
           IF r.riskLevel = "High" THEN "Critical" ELSE "High")
    [] d = "secureHeaders" ->
         findingRec(r, "Security headers may be missing from HTTP responses",
           "Implement security headers (CSP, HSTS, etc.) or use middleware like helmet.js",
           lowTo(r, "Medium"))
    [] d = "hardcodedCredentials" ->
         finding(r, "Potential hardcoded credentials or secrets detected",
           lowTo(r, "Medium"))
    [] d = "idor" ->
         finding(r,
           "Potential Insecure Direct Object Reference (IDOR) vulnerability",
           lowTo(r, "Medium"))
    [] d = "commandInjection" ->
         finding(r, "Potential command injection vulnerability detected",
           "Critical")
    [] d = "rustUnsafe" ->
         finding(r,
           "Use of unsafe Rust code detected - potential memory safety issues",
           lowToElse(r, "High", "Critical"))
    [] d = "rustRawPointers" ->
         finding(r,
           "Use of raw pointers in Rust - potential memory safety issues",
           lowTo(r, "Medium"))
    [] d = "rustFfi" ->
         finding(r,
           "Foreign Function Interface (FFI) usage detected - potential safety issues",
           lowTo(r, "Medium"))
    [] d = "rustUnwrap" ->
         finding(r,
           "Unchecked result/option usage with unwrap() or panic! - potential runtime failures",
           lowTo(r, "Medium"))
    [] d = "jsEval" ->
         finding(r,
           "Use of eval() or dynamic function creation - security risk",
           lowTo(r, "High"))
    [] d = "jsCookie" ->
         finding(r,
           "Direct cookie manipulation - potential cookie security issues",
           lowTo(r, "Medium"))
    [] d = "jsInnerHtml" ->
         findingRec(r,
           "Using innerHTML without proper sanitization - potential XSS risk",
           "Use textContent instead of innerHTML or sanitize HTML content",
           lowTo(r, "Medium"))
    [] d = "jsStorage" ->
         IF hasSensitiveData(text)
         THEN findingRec(r,
                "Potential storage of sensitive data in localStorage/sessionStorage",
                "Avoid storing sensitive data in browser storage mechanisms",
                lowTo(r, "Medium"))
         ELSE [r EXCEPT !.riskLevel = lowTo(r, "Medium")]
    [] d = "jsPostMessage" ->
         IF ~includes(text, "origin")
         THEN findingRec(r, "Using postMessage without origin validation",
                "Always validate origin when receiving postMessage data",
                lowTo(r, "Medium"))
         ELSE [r EXCEPT !.riskLevel = lowTo(r, "Medium")]
    [] d = "pyDeserialization" ->
         finding(r,
           "Use of unsafe deserialization (pickle/marshal) - security risk",
           "High")
    [] d = "pyDynamicImport" ->
         finding(r, "Dynamic imports - potential code injection vector",
           lowTo(r, "Medium"))
    [] d = "pyCsrf" ->
         findingRec(r,
           "Web framework detected without obvious CSRF protection",
           "Ensure CSRF protection is enabled in your web framework",
           lowTo(r, "Medium"))
    [] d = "pyDebug" ->
         findingRec(r, "Debug mode may be enabled in a web application",
           "Disable debug mode in production environments",
           lowTo(r, "Medium"))

\* one check of localSecurityAnalysis applied to the running report r
detector(d, r, text, lang) ==
  IF fires(d, text, lang) THEN effect(d, r, text) ELSE r

\* the recommendations added for threats that pushed none of their own
ThreatRecommendations ==
  << <<"Potential SQL injection vulnerability detected",
       "Use parameterized queries or an ORM instead of string concatenation">>,
     <<"Potential Cross-site Scripting (XSS) vulnerability detected",
       "Use content security policy (CSP) and escape output before rendering">>,
     <<"Potential hardcoded credentials or secrets detected",
       "Store sensitive information in environment variables or a secure vault">>,
     <<"Potential Insecure Direct Object Reference (IDOR) vulnerability",
       "Implement proper access control checks before serving data">>,
     <<"Potential command injection vulnerability detected",
       "Avoid using exec/eval with user input; use allowlists for commands if necessary">>,
     <<"Use of unsafe Rust code detected - potential memory safety issues",
       "Minimize unsafe blocks and ensure they are properly documented and reviewed">>,
     <<"Use of raw pointers in Rust - potential memory safety issues",
       "Prefer safe abstractions like references and smart pointers over raw pointers">>,
     <<"Foreign Function Interface (FFI) usage detected - potential safety issues",
       "Ensure all FFI code is carefully reviewed and properly isolated">>,
     <<"Unchecked result/option usage with unwrap() or panic! - potential runtime failures",
       "Replace .unwrap() with proper error handling using match, if let, or ?">> >>

\* array.includes(x)
contains(seq, x) == \E i \in 1..Len(seq) : seq[i] = x

RECURSIVE addRecommendations(_, _, _)
addRecommendations(recs, found, i) ==
  IF i > Len(ThreatRecommendations) THEN recs
  ELSE addRecommendations(
         IF contains(found, ThreatRecommendations[i][1])
         THEN Append(recs, ThreatRecommendations[i][2]) ELSE recs,
         found, i + 1)

\* the generic recommendation pushed only when no threat was found either
withFallbacksThreatsOnly(r) ==
  IF Len(r.threats) = 0
  THEN [r EXCEPT
          !.threats = <<"No obvious security vulnerabilities detected">>,
          !.recommendations =
             IF Len(@) = 0
             THEN <<"Follow security best practices for your framework/language">>
             ELSE @]
  ELSE r

\* the neutral entries pushed when a list is still empty
withFallbacks(r) ==
  [r EXCEPT
     !.threats = IF Len(@) = 0
                 THEN <<"No obvious security vulnerabilities detected">>
                 ELSE @,
     !.recommendations =
        IF Len(@) = 0
        THEN <<"Follow security best practices for your framework/language">>
        ELSE @]

RECURSIVE runDetectors(_, _, _, _)
runDetectors(r, text, lang, i) ==
  IF i > Len(Detectors) THEN r
  ELSE runDetectors(detector(Detectors[i], r, text, lang), text, lang, i + 1)

\* the report localSecurityAnalysis(text) returns
localSecurityAnalysis(text) ==
  LET lang == detectLanguage(text)
      r0 == [riskLevel |-> "Low", threats |-> <<>>, recommendations |-> <<>>]
      r1 == runDetectors(r0, text, lang, 1)
      r2 == [r1 EXCEPT !.recommendations =
                         addRecommendations(@, r1.threats, 1)]
      r3 == withFallbacks(r2)
  IN  [riskLevel |-> r3.riskLevel, threats |-> r3.threats,
       recommendations |-> r3.recommendations,
       confidenceLevel |-> confidence(text, lang)]

(***************************************************************************)
(* AIClient.localEcoAnalysis                                               *)
(***************************************************************************)
\* (code.match(pattern) || []).length, and the counters the code keeps while
\* it scans the lines: the matches in each fragment, added up
RECURSIVE count(_, _)
count(text, name) ==
  IF text = {} THEN 0
  ELSE LET f == CHOOSE x \in text : TRUE
           n == IF name \in DOMAIN FragmentTable[f].count
                THEN FragmentTable[f].count[name] ELSE 0
       IN  n + count(text \ {f}, name)

\* code.split('\n').length: the newlines inside the fragments, the newlines
\* between them, and one
lineCount(text) ==
  count(text, "newlines")
    + (IF text = {} THEN 0 ELSE Cardinality(text) - 1) + 1

min(a, b) == IF a < b THEN a ELSE b

max(a, b) == IF a > b THEN a ELSE b

\* let language: the first signature that matches
ecoDetectLanguage(text) ==
  IF includes(text, "fn main")
     /\ (includes(text, "impl") \/ includes(text, "struct")
         \/ includes(text, "use std"))
  THEN "Rust"
  ELSE IF includes(text, "public static void main") THEN "Java"
  ELSE IF test(text, "ecoJsSignature") THEN "JavaScript/TypeScript"
  ELSE IF includes(text, "def ")
          /\ (includes(text, "import ") \/ includes(text, "class "))
  THEN "Python"
  ELSE IF includes(text, "#include") THEN "C/C++"
  ELSE "unknown"

\* let baseScore
initialBaseScore(lang) ==
  IF lang \in {"Rust", "C/C++"} THEN 75
  ELSE IF lang = "Python" THEN 65
  ELSE IF lang = "JavaScript/TypeScript" THEN 68
  ELSE IF lang = "Java" THEN 72
  ELSE 70

\* recursionPattern.test(code): in one fragment, or from the name declared in
\* one fragment to its use in a later one
recursion(text) ==
  \/ test(text, "recursion")
  \/ \E f \in text, g \in text : <<f, g>> \in RecursionAcross

hasAI(text) == test(text, "aiPatterns")

\* the rules of the function, in the order of the code
EcoRules ==
  <<"redundancy", "duplicateFunctions", "aiCaching", "aiNoEfficiency",
    "aiLocalModel", "aiRemoteApi", "nestedLoops", "recursion",
    "stringConcatenations", "energyIntensive", "mediaProcessing",
    "jsDomIteration", "jsDomOperations", "jsStateUpdates",
    "pyListConcatenation", "pyThreading", "pyPandas",
    "javaStringConcatenation", "javaObjectCreation", "javaStream",
    "rustToString", "rustClone", "rustBorrow", "rustAwait",
    "cppMemoryLeak", "cppLargeBuffer", "stringConcatenation">>

\* the condition under which a rule applies
ecoFires(rule, text, lang) ==
  CASE rule = "redundancy" -> count(text, "redundancyCount") > 0
    [] rule = "duplicateFunctions" -> count(text, "duplicateFunctions") > 0
    [] rule = "aiCaching" -> hasAI(text) /\ test(text, "aiEfficient")
    [] rule = "aiNoEfficiency" -> hasAI(text) /\ ~test(text, "aiEfficient")
    [] rule = "aiLocalModel" -> hasAI(text) /\ test(text, "localModelUsage")
    [] rule = "aiRemoteApi" ->
         /\ hasAI(text)
         /\ ~test(text, "localModelUsage")
         /\ test(text, "remoteApi")
    [] rule = "nestedLoops" -> count(text, "nestedLoopCount") > 0
    [] rule = "recursion" -> recursion(text)
    [] rule = "stringConcatenations" -> count(text, "plusQuote") > 5
    [] rule = "energyIntensive" -> test(text, "energyIntensive")
    [] rule = "mediaProcessing" ->
         test(text, "mediaKind") /\ test(text, "mediaProcessing")
    [] rule = "jsDomIteration" ->
         /\ lang = "JavaScript/TypeScript"
         /\ includesRaw(text, "document.querySelectorAll")
         /\ test(text, "forEachMap")
    [] rule = "jsDomOperations" ->
         lang = "JavaScript/TypeScript" /\ count(text, "domOperations") > 10
    [] rule = "jsStateUpdates" ->
         /\ lang = "JavaScript/TypeScript"
         /\ (includesRaw(text, "React") \/ includesRaw(text, "useState"))
         /\ count(text, "stateUpdates") > 5
         /\ count(text, "memoization") = 0
    [] rule = "pyListConcatenation" ->
         /\ lang = "Python"
         /\ (includesRaw(text, "+= [") \/ test(text, "listAppendLoop"))
    [] rule = "pyThreading" ->
         /\ lang = "Python"
         /\ includesRaw(text, "threading")
         /\ includesRaw(text, "while True")
    [] rule = "pyPandas" ->
         /\ lang = "Python"
         /\ (includesRaw(text, "pandas") \/ includesRaw(text, "pd."))
         /\ test(text, "inefficientPandas")
    [] rule = "javaStringConcatenation" ->
         /\ lang = "Java"
         /\ count(text, "stringPlusEq") > 3
         /\ ~includesRaw(text, "StringBuilder")
    [] rule = "javaObjectCreation" ->
         lang = "Java" /\ count(text, "newObjects") > 20
    [] rule = "javaStream" ->
         /\ lang = "Java"
         /\ (includesRaw(text, "Collection") \/ includesRaw(text, "List<"))
         /\ ~includesRaw(text, "stream()")
         /\ test(text, "forColon")
    [] rule = "rustToString" ->
         /\ lang = "Rust"
         /\ includesRaw(text, "to_string")
         /\ test(text, "forWhile")
    [] rule = "rustClone" -> lang = "Rust" /\ count(text, "clones") > 5
    [] rule = "rustBorrow" ->
         /\ lang = "Rust"
         /\ ~includesRaw(text, "unsafe")
         /\ includesRaw(text, "&mut ")
    [] rule = "rustAwait" ->
         /\ lang = "Rust"
         /\ includesRaw(text, "async")
         /\ includesRaw(text, "await")
         /\ ~includesRaw(text, "join")
         /\ count(text, "awaits") > 3
    [] rule = "cppMemoryLeak" ->
         /\ lang = "C/C++"
         /\ count(text, "allocations") > count(text, "frees") + 2
    [] rule = "cppLargeBuffer" -> lang = "C/C++" /\ test(text, "largeBuffer")
    [] rule = "stringConcatenation" ->
         count(text, "plusEq") > 5 /\ test(text, "stringWord")

\* what a rule that applies pushes on issues (at most one entry) and on
\* suggestions, and what it adds to baseScore
ecoEffect(rule, text, lang) ==
  CASE rule = "redundancy" ->
         [issues |-> <<"Detected " \o ToString(count(text, "redundancyCount"))
                        \o " blocks of potentially redundant code">>,
          suggestions |->
            <<"Extract repeated code blocks into reusable functions or components">>,
          delta |-> 0 - min(15, count(text, "redundancyCount") * 3)]
    [] rule = "duplicateFunctions" ->
         [issues |-> <<"Found " \o ToString(count(text, "duplicateFunctions"))
                        \o " potentially duplicated function names">>,
          suggestions |->
            <<"Rename or consolidate functions with similar names and purposes">>,
          delta |-> 0 - count(text, "duplicateFunctions") * 2]
    [] rule = "aiCaching" ->
         [issues |-> <<>>,
          suggestions |->
            <<"Good: Found caching or batching for AI operations">>,
          delta |-> 5]
    [] rule = "aiNoEfficiency" ->
         [issues |->
            <<"AI integration detected without obvious efficiency measures">>,
          suggestions |->
            <<"Implement caching, batching, or throttling for AI API calls">>,
          delta |-> -8]
    [] rule = "aiLocalModel" ->
         [issues |-> <<>>,
          suggestions |->
            <<"Good: Using local/edge AI models which can reduce network overhead">>,
          delta |-> 3]
    [] rule = "aiRemoteApi" ->
         [issues |->
            <<"Using remote AI APIs which can increase carbon footprint">>,
          suggestions |->
            <<"Consider using smaller, local models for less intensive tasks">>,
          delta |-> -5]
    [] rule = "nestedLoops" ->
         [issues |->
            <<ToString(count(text, "nestedLoopCount"))
                \o " nested loops detected (potential O(n²) or worse time complexity)">>,
          suggestions |->
            <<"Consider refactoring nested loops to reduce time complexity">>,
          delta |-> 0]
    [] rule = "recursion" ->
         [issues |-> <<"Recursive function calls detected">>,
          suggestions |->
            <<"Ensure recursive functions have proper termination conditions">>,
          delta |-> 0]
    [] rule = "stringConcatenations" ->
         [issues |-> <<"Multiple string concatenations found">>,
          suggestions |->
            <<"Use string templating or builder pattern for multiple concatenations">>,
          delta |-> 0]
    [] rule = "energyIntensive" ->
         [issues |->
            <<"Potentially energy-intensive cryptographic operations detected">>,
          suggestions |->
            <<"Ensure cryptographic operations are used sparingly and efficiently">>,
          delta |-> -7]
    [] rule = "mediaProcessing" ->
         [issues |->
            <<"Media processing detected - potentially high energy consumption">>,
          suggestions |->
            <<"Implement lazy loading and optimize media processing operations">>,
          delta |-> -6]
    [] rule = "jsDomIteration" ->
         [issues |-> <<"DOM collection iteration pattern detected">>,
          suggestions |->
            <<"Consider using more efficient DOM traversal methods">>,
          delta |-> 0]
    [] rule = "jsDomOperations" ->
         [issues |-> <<"High number of DOM operations detected">>,
          suggestions |->
            <<"Batch DOM updates or consider using a virtual DOM approach">>,
          delta |-> -8]
    [] rule = "jsStateUpdates" ->
         [issues |->
            <<"Multiple state updates without memoization could cause excessive re-renders">>,
          suggestions |->
            <<"Use React.memo, useMemo, or useCallback to prevent unnecessary re-renders">>,
          delta |-> -5]
    [] rule = "pyListConcatenation" ->
         [issues |-> <<"Inefficient list concatenation pattern detected">>,
          suggestions |->
            <<"Use list comprehensions or extend() instead of append in loops">>,
          delta |-> -5]
    [] rule = "pyThreading" ->
         [issues |-> <<"Potential CPU-bound thread blocking due to GIL">>,
          suggestions |->
            <<"Consider using multiprocessing instead of threading for CPU-bound tasks">>,
          delta |-> -10]
    [] rule = "pyPandas" ->
         [issues |->
            <<"Inefficient pandas operations detected (iterative processing)">>,
          suggestions |->
            <<"Use vectorized operations instead of iterative row processing">>,
          delta |-> -7]
    [] rule = "javaStringConcatenation" ->
         [issues |-> <<"Inefficient String concatenation with += operator">>,
          suggestions |->
            <<"Use StringBuilder for string concatenation in loops">>,
          delta |-> -7]
    [] rule = "javaObjectCreation" ->
         [issues |-> <<"High rate of object creation detected">>,
          suggestions |-> <<"Consider object pooling or reuse patterns">>,
          delta |-> -5]
    [] rule = "javaStream" ->
         [issues |-> <<>>,
          suggestions |->
            <<"Consider using Stream API for more efficient collection processing">>,
          delta |-> -3]
    [] rule = "rustToString" ->
         [issues |-> <<"Repeated to_string() calls in loops">>,
          suggestions |->
            <<"Use string references (&str) instead of String allocations where possible">>,
          delta |-> -3]
    [] rule = "rustClone" ->
         [issues |->
            <<"Multiple clone() calls detected - potential memory inefficiency">>,
          suggestions |->
            <<"Consider using references or move semantics to avoid cloning">>,
          delta |-> -4]
    [] rule = "rustBorrow" ->
         [issues |-> <<>>,
          suggestions |-> <<"Good use of Rust's memory safety features">>,
          delta |-> 5]
    [] rule = "rustAwait" ->
         [issues |->
            <<"Multiple sequential await operations could be parallelized">>,
          suggestions |->
            <<"Use join! macro to run async operations concurrently">>,
          delta |-> -3]
    [] rule = "cppMemoryLeak" ->
         [issues |->
            <<"Potential memory leak: more allocations than deallocations">>,
          suggestions |-> <<"Ensure all allocated memory is properly freed">>,
          delta |-> -15]
    [] rule = "cppLargeBuffer" ->
         [issues |-> <<"Large buffer allocation detected">>,
          suggestions |->
            <<"Consider using dynamic data structures or memory-mapped files for large data">>,
          delta |-> -5]
    [] rule = "stringConcatenation" ->
         [issues |-> <<"Inefficient string concatenation detected">>,
          suggestions |->
            <<CASE lang = "JavaScript/TypeScript" ->
                     "Use array.join() or template literals instead of string concatenation"
                [] lang = "Java" ->
                     "Use StringBuilder instead of String concatenation in loops"
                [] lang = "Python" ->
                     "Use \"\".join(list) instead of string += in loops"
                [] lang = "C/C++" ->
                     "Use std::stringstream or std::string::append() instead of += operator"
                [] OTHER ->
                     "Use string builder pattern for better memory efficiency">>,
          delta |-> 0]

\* one rule applied to the running baseScore, issues and suggestions
ecoRule(rule, r, text, lang) ==
  IF ecoFires(rule, text, lang)
  THEN LET e == ecoEffect(rule, text, lang)
       IN  [baseScore |-> r.baseScore + e.delta,
            issues |-> r.issues \o e.issues,
            suggestions |-> r.suggestions \o e.suggestions]
  ELSE r

RECURSIVE runEcoRules(_, _, _, _)
runEcoRules(r, text, lang, i) ==
  IF i > Len(EcoRules) THEN r
  ELSE runEcoRules(ecoRule(EcoRules[i], r, text, lang), text, lang, i + 1)

\* the score left as computed
noClamp(s) == s

\* Math.max(35, Math.min(95, ecoScore))
clamp(s) == max(35, min(95, s))

\* let ecoScore before the clamp of line 1614: the base score less the
\* deductions for the issues found, the nested loops and the size
unclamped(r, text) ==
  r.baseScore - min(20, Len(r.issues) * 5)
    - (IF count(text, "nestedLoopCount") > 0
       THEN min(15, count(text, "nestedLoopCount") * 5) ELSE 0)
    - (IF length(text) > 5000 THEN 3 ELSE 0)
    - (IF length(text) > 10000 THEN 5 ELSE 0)
    - (IF lineCount(text) > 500 THEN 5 ELSE 0)

\* the score with one deduction for the length: 5 above 10000 characters,
\* else 3 above 5000
scoreLengthOnce(r, text) ==
  [ecoScore |->
     clamp(unclamped(r, text) + (IF length(text) > 10000 THEN 3 ELSE 0)),
   issues |->
     IF lineCount(text) > 500
     THEN Append(r.issues, "Extremely large file detected (over 500 lines)")
     ELSE r.issues,
   suggestions |->
     IF lineCount(text) > 500
     THEN Append(r.suggestions,
                 "Break down large files into smaller, more focused modules")
     ELSE r.suggestions]

\* the score without the check of the number of lines
scoreLinesUnchecked(r, text) ==
  LET nested == count(text, "nestedLoopCount")
      s1 == r.baseScore - min(20, Len(r.issues) * 5)
      s2 == IF nested > 0 THEN s1 - min(15, nested * 5) ELSE s1
      s3 == IF length(text) > 5000 THEN s2 - 3 ELSE s2
      s4 == IF length(text) > 10000 THEN s3 - 5 ELSE s3
  IN  [ecoScore |-> clamp(s4), issues |-> r.issues,
       suggestions |-> r.suggestions]

\* let ecoScore: the deductions for the issues found, the nested loops and the
\* size, the large-file entry, and the clamp
score(r, text) ==
  LET large == lineCount(text) > 500
  IN  [ecoScore |-> clamp(unclamped(r, text)),
       issues |->
         IF large
         THEN Append(r.issues, "Extremely large file detected (over 500 lines)")
         ELSE r.issues,
       suggestions |->
         IF large
         THEN Append(r.suggestions,
                     "Break down large files into smaller, more focused modules")
         ELSE r.suggestions]

\* the generic suggestion of a language
genericSuggestion(lang) ==
  CASE lang = "JavaScript/TypeScript" ->
         "Use modern JS features like array methods, async/await, and avoid jQuery DOM manipulation"
    [] lang = "Python" ->
         "Follow PEP 8 style guide and use list comprehensions, generators, and context managers"
    [] lang = "Java" ->
         "Use Stream API, try-with-resources, and follow effective Java patterns"
    [] lang = "C/C++" ->
         "Use RAII pattern, smart pointers, and prefer std algorithms over raw loops"
    [] lang = "Rust" ->
         "Leverage Rust's ownership system and avoid unnecessary memory allocations"
    [] OTHER ->
         "Follow language-specific best practices for performance optimization"

\* the fallbacks with the bonus given to every text
ecoFallbacksBonusAlways(r, lang) ==
  [ecoScore |-> r.ecoScore + 5,
   issues |-> IF Len(r.issues) = 0
              THEN <<"No obvious efficiency issues detected">>
              ELSE r.issues,
   suggestions |-> IF Len(r.suggestions) = 0
                   THEN <<genericSuggestion(lang)>>
                   ELSE r.suggestions]

\* the generic suggestion when there is none, the neutral issue and its bonus
\* when there is no issue
ecoFallbacks(r, lang) ==
  [ecoScore |-> IF Len(r.issues) = 0 THEN r.ecoScore + 5 ELSE r.ecoScore,
   issues |-> IF Len(r.issues) = 0
              THEN <<"No obvious efficiency issues detected">>
              ELSE r.issues,
   suggestions |-> IF Len(r.suggestions) = 0
                   THEN <<genericSuggestion(lang)>>
                   ELSE r.suggestions]

\* the details of the report
ecoDetails(text, lang, issueCount) ==
  [codeSize |-> length(text),
   lineCount |-> lineCount(text),
   loopCount |-> count(text, "loopMatches"),
   issueCount |-> issueCount,
   language |-> lang,
   redundancies |-> count(text, "redundancyCount"),
   aiIntegration |-> hasAI(text)]

\* the report localEcoAnalysis(text) returns
localEcoAnalysis(text) ==
  LET lang == ecoDetectLanguage(text)
      r0 == [baseScore |-> initialBaseScore(lang), issues |-> <<>>,
             suggestions |-> <<>>]
      r1 == runEcoRules(r0, text, lang, 1)
      r2 == ecoFallbacks(score(r1, text), lang)
  IN  [ecoScore |-> r2.ecoScore, issues |-> r2.issues,
       suggestions |-> r2.suggestions,
       details |-> ecoDetails(text, lang, Len(r2.issues))]

(***************************************************************************)
(* AIClient.localCodeExplanation                                           *)
(***************************************************************************)
\* let language: the first signature that matches
explainDetectLanguage(text) ==
  IF \/ includesRaw(text, "import React")
     \/ /\ includesRaw(text, "function")
        /\ includesRaw(text, "return")
        /\ (includesRaw(text, "<div>") \/ includesRaw(text, "<>"))
  THEN "React"
  ELSE IF /\ includesRaw(text, "import ")
          /\ includesRaw(text, "from ")
          /\ includesRaw(text, "const ")
          /\ includesRaw(text, "=>")
  THEN "JavaScript/TypeScript"
  ELSE IF /\ includesRaw(text, "def ")
          /\ includesRaw(text, ":")
          /\ includesRaw(text, "import ")
  THEN "Python"
  ELSE IF /\ includesRaw(text, "public class ")
          /\ includesRaw(text, "{")
          /\ includesRaw(text, "}")
  THEN "Java"
  ELSE IF includesRaw(text, "#include") /\ includesRaw(text, "int main(")
  THEN "C/C++"
  ELSE IF /\ includesRaw(text, "package main")
          /\ includesRaw(text, "func ")
          /\ includesRaw(text, "import (")
  THEN "Go"
  ELSE IF /\ includesRaw(text, "fn ")
          /\ \/ includesRaw(text, "let mut ")
             \/ includesRaw(text, "impl")
             \/ includesRaw(text, "pub struct")
  THEN "Rust"
  ELSE IF \/ includesRaw(text, "<?php")
          \/ includesRaw(text, "function") /\ includesRaw(text, "$")
  THEN "PHP"
  ELSE IF /\ includesRaw(text, "class ")
          /\ includesRaw(text, "def ")
          /\ includesRaw(text, "end")
  THEN "Ruby"
  ELSE IF includesRaw(text, "using System") /\ includesRaw(text, "namespace ")
  THEN "C#"
  ELSE IF \/ includesRaw(text, "import SwiftUI")
          \/ includesRaw(text, "class") /\ includesRaw(text, "override func")
  THEN "Swift"
  ELSE IF /\ includesRaw(text, "fun ")
          /\ includesRaw(text, "val ")
          /\ includesRaw(text, "kotlin")
  THEN "Kotlin"
  ELSE IF includesRaw(text, "<!DOCTYPE html>") \/ includesRaw(text, "<html>")
  THEN "HTML"
  ELSE IF /\ includesRaw(text, "SELECT")
          /\ includesRaw(text, "FROM")
          /\ (includesRaw(text, "WHERE") \/ includesRaw(text, "JOIN"))
  THEN "SQL"
  ELSE IF \/ includesRaw(text, "#!/bin/")
          \/ includesRaw(text, "echo ") /\ includesRaw(text, "=")
  THEN "Shell/Bash"
  ELSE "unknown"

\* the sentences added for the language
languageDetails(text, lang) ==
  CASE lang = "React" ->
         "This is a React component that renders UI elements. "
         \o (IF includesRaw(text, "useState")
             THEN "It uses hooks (like useState) to manage component state. "
             ELSE "")
         \o (IF includesRaw(text, "useEffect")
             THEN "The useEffect hook is used for side effects or lifecycle events. "
             ELSE "")
         \o "The component structure includes JSX markup for rendering the interface."
    [] lang = "JavaScript/TypeScript" ->
         "This code uses modern JavaScript/TypeScript features. "
         \o (IF includesRaw(text, "async")
             THEN "It contains asynchronous functions that likely handle promises or API calls. "
             ELSE "")
         \o (IF includesRaw(text, "class ")
             THEN "It uses class-based syntax for object-oriented programming. "
             ELSE "")
         \o "The code is structured with functions and modules for better organization."
    [] lang = "Python" ->
         "This Python code is structured with functions and possibly classes. "
         \o (IF includesRaw(text, "def __init__")
             THEN "It uses classes with initialization methods. "
             ELSE "")
         \o (IF includesRaw(text, "with ")
             THEN "Context managers are used for resource handling. "
             ELSE "")
         \o "The indentation is significant for defining code blocks."
    [] OTHER -> ""

\* the explanation localCodeExplanation(text) returns
localCodeExplanation(text) ==
  LET lang == explainDetectLanguage(text)
  IN  "This code appears to be written in " \o lang
      \o ". It contains approximately " \o ToString(lineCount(text))
      \o " lines of code with " \o ToString(count(text, "functionMatches"))
      \o " functions/methods"
      \o (IF count(text, "classMatches") > 0
          THEN " and " \o ToString(count(text, "classMatches"))
               \o " classes/interfaces"
          ELSE "")
      \o ". "
      \o languageDetails(text, lang)

(***************************************************************************)
(* Natural numbers of any size: limbs of 15 bits, least significant first, *)
(* without leading zero limbs                                              *)
(***************************************************************************)
limbAt(a, i) == IF i <= Len(a) THEN a[i] ELSE 0

RECURSIVE natOf(_)
natOf(n) == IF n = 0 THEN <<>> ELSE <<n % 32768>> \o natOf(n \div 32768)

RECURSIVE trim(_)
trim(a) ==
  IF a = <<>> THEN a
  ELSE IF a[Len(a)] = 0 THEN trim(SubSeq(a, 1, Len(a) - 1))
  ELSE a

RECURSIVE compareFrom(_, _, _)
compareFrom(a, b, i) ==
  IF i = 0 THEN 0
  ELSE IF a[i] < b[i] THEN -1
  ELSE IF a[i] > b[i] THEN 1
  ELSE compareFrom(a, b, i - 1)

\* -1, 0 or 1 as a is below, equal to or above b
compare(a, b) ==
  IF Len(a) < Len(b) THEN -1
  ELSE IF Len(a) > Len(b) THEN 1
  ELSE compareFrom(a, b, Len(a))

RECURSIVE addFrom(_, _, _, _)
addFrom(a, b, i, carry) ==
  IF i > Len(a) /\ i > Len(b)
  THEN IF carry = 0 THEN <<>> ELSE <<carry>>
  ELSE LET s == limbAt(a, i) + limbAt(b, i) + carry
       IN  <<s % 32768>> \o addFrom(a, b, i + 1, s \div 32768)

add(a, b) == addFrom(a, b, 1, 0)

RECURSIVE subFrom(_, _, _, _)
subFrom(a, b, i, borrow) ==
  IF i > Len(a) THEN <<>>
  ELSE LET d == a[i] - limbAt(b, i) - borrow
       IN  IF d < 0 THEN <<d + 32768>> \o subFrom(a, b, i + 1, 1)
           ELSE <<d>> \o subFrom(a, b, i + 1, 0)

\* a - b, for a >= b
sub(a, b) == trim(subFrom(a, b, 1, 0))

RECURSIVE scaleFrom(_, _, _, _)
scaleFrom(a, d, i, carry) ==
  IF i > Len(a)
  THEN IF carry = 0 THEN <<>> ELSE <<carry>>
  ELSE LET p == a[i] * d + carry
       IN  <<p % 32768>> \o scaleFrom(a, d, i + 1, p \div 32768)

\* a * d for one limb d
scale(a, d) == IF d = 0 THEN <<>> ELSE scaleFrom(a, d, 1, 0)

zeros(n) == [i \in 1..n |-> 0]

RECURSIVE mulFrom(_, _, _)
mulFrom(a, b, i) ==
  IF i > Len(b) THEN <<>>
  ELSE add(IF b[i] = 0 \/ a = <<>> THEN <<>>
           ELSE zeros(i - 1) \o scale(a, b[i]),
           mulFrom(a, b, i + 1))

mul(a, b) == mulFrom(a, b, 1)

\* a * 2^n
shl(a, n) ==
  IF a = <<>> THEN <<>>
  ELSE zeros(n \div 15) \o scale(a, 2 ^ (n % 15))

\* a \div 2^n
shr(a, n) ==
  LET k == n \div 15
      r == n % 15
      low == 2 ^ r
      high == 2 ^ (15 - r)
  IN  IF k >= Len(a) THEN <<>>
      ELSE trim([i \in 1..(Len(a) - k) |->
                   (a[i + k] \div low) + (limbAt(a, i + k + 1) % low) * high])

RECURSIVE bitsOf(_)
bitsOf(d) == IF d = 0 THEN 0 ELSE 1 + bitsOf(d \div 2)

\* the number of binary digits of a
bitLength(a) ==
  IF a = <<>> THEN 0 ELSE 15 * (Len(a) - 1) + bitsOf(a[Len(a)])

odd(a) == a # <<>> /\ a[1] % 2 = 1

\* the quotient of r * 2^k by d for r < d, and whether the division is exact
RECURSIVE quotient(_, _, _, _)
quotient(r, d, k, q) ==
  IF k = 0 \/ Len(q) < 0 THEN [q |-> q, exact |-> r = <<>>]
  ELSE LET r2 == shl(r, 1)
           q2 == shl(q, 1)
       IN  IF compare(r2, d) >= 0
           THEN quotient(sub(r2, d), d, k - 1, add(q2, <<1>>))
           ELSE quotient(r2, d, k - 1, q2)

\* the integer part of the square root of a: the digits below 2^(bit + 1)
RECURSIVE rootFrom(_, _, _)
rootFrom(a, r, bit) ==
  IF bit < 0 THEN r
  ELSE LET c == add(r, shl(<<1>>, bit))
       IN  IF compare(mul(c, c), a) <= 0 THEN rootFrom(a, c, bit - 1)
           ELSE rootFrom(a, r, bit - 1)

root(a) == rootFrom(a, <<>>, bitLength(a) \div 2)

(***************************************************************************)
(* Number: IEEE 754 binary64.  A finite one is (-1)^sign * m * 2^e with    *)
(* m < 2^53 and e >= -1074, and m >= 2^52 unless e = -1074; results are    *)
(* rounded to nearest, ties to even                                        *)
(***************************************************************************)
\* the operands of an operation are values: each is evaluated once, before
\* the operation
only(S) == CHOOSE v \in S : TRUE

NaN == [class |-> "nan", sign |-> 0, m |-> <<>>, e |-> 0]
infinity(s) == [class |-> "infinite", sign |-> s, m |-> <<>>, e |-> 0]
zero(s) == [class |-> "finite", sign |-> s, m |-> <<>>, e |-> 0]

isNaN(x) == x.class = "nan"
isFinite(x) == x.class = "finite"
isZero(x) == x.class = "finite" /\ x.m = <<>>

\* the finite double (-1)^s * m * 2^e for m < 2^53, or the infinity it
\* overflows to
finite(s, m, e) ==
  IF m = <<>> THEN zero(s)
  ELSE IF e + bitLength(m) > 1024 THEN infinity(s)
  ELSE [class |-> "finite", sign |-> s, m |-> m, e |-> e]

\* the same for m < 2^54: rounding up may have carried into a 54th digit
packed(s, m, e) ==
  IF bitLength(m) = 54 THEN finite(s, shr(m, 1), e + 1) ELSE finite(s, m, e)

\* q rounded to nearest, ties to even: c compares the digits cut off below q
\* with one half
nearest(q, c, inexact) ==
  IF c > 0 \/ (c = 0 /\ (inexact \/ odd(q))) THEN add(q, <<1>>) ELSE q

\* M without its sh lowest digits, rounded; q is M \div 2^sh
cut(M, sh, q, inexact) ==
  nearest(q, compare(sub(M, shl(q, sh)), shl(<<1>>, sh - 1)), inexact)

\* rounded, for the exponent e that the result has before a carry
roundedTo(s, M, E, inexact, e) ==
  IF e <= E THEN packed(s, shl(M, E - e), e)
  ELSE packed(s, only({cut(M, e - E, q, inexact) : q \in {shr(M, e - E)}}), e)

\* the double nearest to (-1)^s * (M + f) * 2^E, ties to even, where
\* 0 <= f < 1 and f # 0 iff inexact
rounded(s, M, E, inexact) ==
  only({roundedTo(s, m, E, inexact, max(E + bitLength(m) - 53, -1074)) :
          m \in {M}})

\* the double of an integer n with |n| < 2^31
double(n) ==
  rounded(IF n < 0 THEN 1 ELSE 0, natOf(IF n < 0 THEN 0 - n ELSE n), 0, FALSE)

\* m scaled to 53 binary digits, and the exponent that goes with it
aligned(x) ==
  [m |-> shl(x.m, 53 - bitLength(x.m)), e |-> x.e - (53 - bitLength(x.m))]

xor(s, t) == (s + t) % 2

\* x * y
times(left, right) ==
  only({
  IF isNaN(x) \/ isNaN(y) THEN NaN
  ELSE IF x.class = "infinite" \/ y.class = "infinite"
  THEN IF isZero(x) \/ isZero(y) THEN NaN ELSE infinity(xor(x.sign, y.sign))
  ELSE IF isZero(x) \/ isZero(y) THEN zero(xor(x.sign, y.sign))
  ELSE rounded(xor(x.sign, y.sign), mul(x.m, y.m), x.e + y.e, FALSE)
  : x \in {left}, y \in {right}})

\* (-1)^s * X * 2^e + (-1)^t * Y * 2^e for X and Y above 0
added(s, X, t, Y, e) ==
  IF s = t THEN rounded(s, add(X, Y), e, FALSE)
  ELSE IF compare(X, Y) = 0 THEN zero(0)
  ELSE IF compare(X, Y) > 0 THEN rounded(s, sub(X, Y), e, FALSE)
  ELSE rounded(t, sub(Y, X), e, FALSE)

\* x + y
plus(left, right) ==
  only({
  IF isNaN(x) \/ isNaN(y) THEN NaN
  ELSE IF x.class = "infinite"
  THEN IF y.class = "infinite" /\ y.sign # x.sign THEN NaN ELSE x
  ELSE IF y.class = "infinite" THEN y
  ELSE IF isZero(x)
  THEN IF isZero(y) THEN zero(IF x.sign = 1 /\ y.sign = 1 THEN 1 ELSE 0)
       ELSE y
  ELSE IF isZero(y) THEN x
  ELSE IF x.e - y.e > 64 THEN x
  ELSE IF y.e - x.e > 64 THEN y
  ELSE only({added(x.sign, X, y.sign, Y, min(x.e, y.e)) :
               X \in {shl(x.m, x.e - min(x.e, y.e))},
               Y \in {shl(y.m, y.e - min(x.e, y.e))}})
  : x \in {left}, y \in {right}})

negated(x) == IF isNaN(x) THEN x ELSE [x EXCEPT !.sign = 1 - x.sign]

\* x - y
minus(x, y) == plus(x, negated(y))

\* (-1)^s * d.q * 2^e, rounded, for the quotient d of a division
ratioOf(s, d, e) == rounded(s, d.q, e, ~d.exact)

\* (-1)^s * a / b for aligned a and b
ratio(s, a, b) ==
  IF compare(a.m, b.m) >= 0
  THEN ratioOf(s, quotient(sub(a.m, b.m), b.m, 56, <<1>>), a.e - b.e - 56)
  ELSE ratioOf(s, quotient(a.m, b.m, 56, <<>>), a.e - b.e - 56)

\* x / y
over(left, right) ==
  only({
  IF isNaN(x) \/ isNaN(y) THEN NaN
  ELSE IF x.class = "infinite"
  THEN IF y.class = "infinite" THEN NaN ELSE infinity(xor(x.sign, y.sign))
  ELSE IF y.class = "infinite" THEN zero(xor(x.sign, y.sign))
  ELSE IF isZero(y)
  THEN IF isZero(x) THEN NaN ELSE infinity(xor(x.sign, y.sign))
  ELSE IF isZero(x) THEN zero(xor(x.sign, y.sign))
  ELSE only({ratio(xor(x.sign, y.sign), a, b) :
               a \in {aligned(x)}, b \in {aligned(y)}})
  : x \in {left}, y \in {right}})

\* the square root of M * 2^(2 * e), rounded; r is the integer part of the
\* root of M
rootRounded(M, r, e) == rounded(0, r, e, mul(r, r) # M)

\* the square root of a.m * 2^a.e for an aligned a, with a.e - k even
rootOf(a, k) ==
  only({rootRounded(M, root(M), (a.e - k) \div 2) : M \in {shl(a.m, k)}})

\* Math.sqrt(x)
sqrt(operand) ==
  only({
  IF isNaN(x) THEN NaN
  ELSE IF isZero(x) THEN x
  ELSE IF x.sign = 1 THEN NaN
  ELSE IF x.class = "infinite" THEN x
  ELSE only({rootOf(a, IF (a.e - 56) % 2 = 0 THEN 56 ELSE 57) :
               a \in {aligned(x)}})
  : x \in {operand}})

\* x < 0
negative(x) == ~isNaN(x) /\ ~isZero(x) /\ x.sign = 1

\* x < y
less(x, y) ==
  IF isNaN(x) \/ isNaN(y) THEN FALSE ELSE negative(minus(x, y))

\* x === y
same(left, right) ==
  only({
  IF isNaN(x) \/ isNaN(y) THEN FALSE
  ELSE (isZero(x) /\ isZero(y)) \/ x = y
  : x \in {left}, y \in {right}})

(***************************************************************************)
(* AIClient.generateTextEmbedding                                          *)
(***************************************************************************)
\* the texts given to generateTextEmbedding
EmbedTexts ==
  {"", "  ", "a", "b", "const x = 1;", "def f(x): return x", "fn main() {}",
   "#include <stdio.h>", "<div>Hi!</div>", "X1 Y2. Z3?"}

\* what generateTextEmbedding counts and tests in each text
TextTable ==
  [t \in EmbedTexts |->
    CASE
      t = "" ->
        [charCount |-> 0,
         wordCount |-> 0,
         lineCount |-> 1,
         uppercaseCount |-> 0,
         digitCount |-> 0,
         specialCharCount |-> 0,
         wordLengthSum |-> 0,
         sentenceCount |-> 0,
         braceCount |-> 0,
         parenCount |-> 0,
         stopCount |-> 0,
         spaceRuns |-> 0,
         lowercaseCount |-> 0,
         js |-> FALSE,
         python |-> FALSE,
         java |-> FALSE,
         rust |-> FALSE,
         cpp |-> FALSE,
         html |-> FALSE]
      []
      t = "  " ->
        [charCount |-> 2,
         wordCount |-> 0,
         lineCount |-> 1,
         uppercaseCount |-> 0,
         digitCount |-> 0,
         specialCharCount |-> 0,
         wordLengthSum |-> 0,
         sentenceCount |-> 0,
         braceCount |-> 0,
         parenCount |-> 0,
         stopCount |-> 0,
         spaceRuns |-> 1,
         lowercaseCount |-> 0,
         js |-> FALSE,
         python |-> FALSE,
         java |-> FALSE,
         rust |-> FALSE,
         cpp |-> FALSE,
         html |-> FALSE]
      []
      t = "a" ->
        [charCount |-> 1,
         wordCount |-> 1,
         lineCount |-> 1,
         uppercaseCount |-> 0,
         digitCount |-> 0,
         specialCharCount |-> 0,
         wordLengthSum |-> 1,
         sentenceCount |-> 1,
         braceCount |-> 0,
         parenCount |-> 0,
         stopCount |-> 0,
         spaceRuns |-> 0,
         lowercaseCount |-> 1,
         js |-> FALSE,
         python |-> FALSE,
         java |-> FALSE,
         rust |-> FALSE,
         cpp |-> FALSE,
         html |-> FALSE]
      []
      t = "b" ->
        [charCount |-> 1,
         wordCount |-> 1,
         lineCount |-> 1,
         uppercaseCount |-> 0,
         digitCount |-> 0,
         specialCharCount |-> 0,
         wordLengthSum |-> 1,
         sentenceCount |-> 1,
         braceCount |-> 0,
         parenCount |-> 0,
         stopCount |-> 0,
         spaceRuns |-> 0,
         lowercaseCount |-> 1,
         js |-> FALSE,
         python |-> FALSE,
         java |-> FALSE,
         rust |-> FALSE,
         cpp |-> FALSE,
         html |-> FALSE]
      []
      t = "const x = 1;" ->
        [charCount |-> 12,
         wordCount |-> 4,
         lineCount |-> 1,
         uppercaseCount |-> 0,
         digitCount |-> 1,
         specialCharCount |-> 2,
         wordLengthSum |-> 9,
         sentenceCount |-> 1,
         braceCount |-> 0,
         parenCount |-> 1,
         stopCount |-> 0,
         spaceRuns |-> 3,
         lowercaseCount |-> 6,
         js |-> TRUE,
         python |-> FALSE,
         java |-> FALSE,
         rust |-> FALSE,
         cpp |-> FALSE,
         html |-> FALSE]
      []
      t = "def f(x): return x" ->
        [charCount |-> 18,
         wordCount |-> 4,
         lineCount |-> 1,
         uppercaseCount |-> 0,
         digitCount |-> 0,
         specialCharCount |-> 3,
         wordLengthSum |-> 15,
         sentenceCount |-> 1,
         braceCount |-> 0,
         parenCount |-> 2,
         stopCount |-> 0,
         spaceRuns |-> 3,
         lowercaseCount |-> 12,
         js |-> FALSE,
         python |-> TRUE,
         java |-> FALSE,
         rust |-> FALSE,
         cpp |-> FALSE,
         html |-> FALSE]
      []
      t = "fn main() {}" ->
        [charCount |-> 12,
         wordCount |-> 3,
         lineCount |-> 1,
         uppercaseCount |-> 0,
         digitCount |-> 0,
         specialCharCount |-> 4,
         wordLengthSum |-> 10,
         sentenceCount |-> 1,
         braceCount |-> 2,
         parenCount |-> 2,
         stopCount |-> 0,
         spaceRuns |-> 2,
         lowercaseCount |-> 6,
         js |-> FALSE,
         python |-> FALSE,
         java |-> FALSE,
         rust |-> TRUE,
         cpp |-> FALSE,
         html |-> FALSE]
      []
      t = "#include <stdio.h>" ->
        [charCount |-> 18,
         wordCount |-> 2,
         lineCount |-> 1,
         uppercaseCount |-> 0,
         digitCount |-> 0,
         specialCharCount |-> 4,
         wordLengthSum |-> 17,
         sentenceCount |-> 2,
         braceCount |-> 0,
         parenCount |-> 0,
         stopCount |-> 1,
         spaceRuns |-> 1,
         lowercaseCount |-> 13,
         js |-> FALSE,
         python |-> FALSE,
         java |-> FALSE,
         rust |-> FALSE,
         cpp |-> TRUE,
         html |-> FALSE]
      []
      t = "<div>Hi!</div>" ->
        [charCount |-> 14,
         wordCount |-> 1,
         lineCount |-> 1,
         uppercaseCount |-> 1,
         digitCount |-> 0,
         specialCharCount |-> 6,
         wordLengthSum |-> 14,
         sentenceCount |-> 2,
         braceCount |-> 0,
         parenCount |-> 0,
         stopCount |-> 1,
         spaceRuns |-> 0,
         lowercaseCount |-> 7,
         js |-> FALSE,
         python |-> FALSE,
         java |-> FALSE,
         rust |-> FALSE,
         cpp |-> FALSE,
         html |-> TRUE]
      []
      t = "X1 Y2. Z3?" ->
        [charCount |-> 10,
         wordCount |-> 3,
         lineCount |-> 1,
         uppercaseCount |-> 3,
         digitCount |-> 3,
         specialCharCount |-> 2,
         wordLengthSum |-> 8,
         sentenceCount |-> 2,
         braceCount |-> 0,
         parenCount |-> 0,
         stopCount |-> 2,
         spaceRuns |-> 2,
         lowercaseCount |-> 0,
         js |-> FALSE,
         python |-> FALSE,
         java |-> FALSE,
         rust |-> FALSE,
         cpp |-> FALSE,
         html |-> FALSE]]

\* Array(32)
Dimensions == 32

\* the least and the greatest value Math.random() returns: 0 and 1 - 2^-53
lowest == zero(0)
highest == rounded(0, sub(shl(<<1>>, 53), <<1>>), -53, FALSE)

\* the values Math.random() returns in the eleven calls of one run
RandomRuns ==
  {[i \in 1..11 |-> lowest], [i \in 1..11 |-> highest],
   [i \in 1..11 |-> over(double(1), double(2))],
   [i \in 1..11 |-> IF i % 2 = 0 THEN lowest ELSE highest],
   [i \in 1..11 |-> IF i < 6 THEN highest ELSE over(double(1), double(4))],
   [i \in 1..11 |-> over(double(i), double(12))]}

\* x || 1
orOne(x) == IF isNaN(x) \/ isZero(x) THEN double(1) ELSE x

\* 2 * ((value - min) / (max - min || 1)) - 1
normalizeValue(value, least, most) ==
  minus(times(double(2),
              over(minus(value, double(least)),
                   orOne(minus(double(most), double(least))))),
        double(1))

\* embedding.reduce((sum, val) => sum + val * val, 0), from index i on
RECURSIVE sumOfSquares(_, _, _)
sumOfSquares(v, i, sum) ==
  IF i > Len(v) THEN sum
  ELSE only({sumOfSquares(v, i + 1, next) :
                next \in {plus(sum, times(v[i], v[i]))}})

\* const embedding before it is normalised, when Math.random() returns
\* random[1], ..., random[11]; embedding[k] of the code
\* is at index k + 1
features(text, random) ==
  LET c == TextTable[text]
      perChar(n) == over(double(n), double(max(c.charCount, 1)))
      perLength(n) ==
        over(double(n), double(IF c.charCount = 0 THEN 1 ELSE c.charCount))
      perLine(n) ==
        over(double(n), double(IF c.lineCount = 0 THEN 1 ELSE c.lineCount))
      perWord(n) ==
        over(double(n), double(IF c.wordCount = 0 THEN 1 ELSE c.wordCount))
      wordLengthAvg ==
        IF c.wordCount > 0
        THEN over(double(c.wordLengthSum), double(c.wordCount))
        ELSE double(0)
      flag(found) ==
        IF found THEN over(double(9), double(10)) ELSE over(double(-1), double(2))
  IN  <<normalizeValue(double(c.charCount), 0, 10000),
        normalizeValue(double(c.wordCount), 0, 2000),
        normalizeValue(double(c.lineCount), 0, 500),
        normalizeValue(perChar(c.uppercaseCount), 0, 1),
        normalizeValue(perChar(c.digitCount), 0, 1),
        normalizeValue(perChar(c.specialCharCount), 0, 1),
        normalizeValue(wordLengthAvg, 1, 20),
        normalizeValue(over(double(c.sentenceCount),
                            double(max(c.lineCount, 1))), 0, 10),
        normalizeValue(perLine(c.braceCount), 0, 2),
        normalizeValue(perLine(c.parenCount), 0, 5),
        normalizeValue(perWord(c.stopCount), 0, 10),
        normalizeValue(perLength(c.spaceRuns), 0, 5),
        normalizeValue(perLength(c.lowercaseCount), 0, 1),
        normalizeValue(perLength(c.uppercaseCount), 0, 1),
        normalizeValue(perLength(c.digitCount), 0, 1),
        flag(c.js), flag(c.python), flag(c.java), flag(c.rust), flag(c.cpp),
        flag(c.html)>>
      \o [i \in 1..(Dimensions - 21) |->
            times(minus(times(random[i], double(2)), double(1)),
                  over(double(1), double(10)))]

\* embedding.map((val) => val / divisor), from index i on
RECURSIVE divided(_, _, _)
divided(v, divisor, i) ==
  IF i > Len(v) THEN <<>>
  ELSE <<over(v[i], divisor)>> \o divided(v, divisor, i + 1)

\* the vector generateTextEmbedding(text) returns
\* embedding.map((val) => val / (magnitude || 1))
normalised(embedding) ==
  only({divided(embedding, orOne(magnitude), 1) :
          magnitude \in {sqrt(sumOfSquares(embedding, 1, double(0)))}})

\* the embedding returned as it is before normalisation
generateTextEmbeddingRaw(text, random) == features(text, random)

generateTextEmbedding(text, random) ==
  only({normalised(embedding) : embedding \in {features(text, random)}})

(***************************************************************************)
(* VectorStore                                                             *)
(***************************************************************************)
\* dotProduct, mag1 and mag2 after the loop, from round i on
RECURSIVE sums(_, _, _, _)
sums(vec1, vec2, i, s) ==
  IF i > Len(vec1) THEN s
  ELSE only({sums(vec1, vec2, i + 1, next) :
                next \in {[dotProduct |->
                             plus(s.dotProduct, times(vec1[i], vec2[i])),
                           mag1 |-> plus(s.mag1, times(vec1[i], vec1[i])),
                           mag2 |-> plus(s.mag2, times(vec2[i], vec2[i]))]}})

\* the value returned once the loop has left its sums in s
cosineOf(s) ==
  only({IF same(denominator, double(0)) THEN double(0)
         ELSE over(s.dotProduct, denominator) :
           denominator \in {times(sqrt(s.mag1), sqrt(s.mag2))}})

calculateCosineSimilarity(vec1, vec2) ==
  IF Len(vec1) # Len(vec2) THEN double(0)
  ELSE only({cosineOf(s) :
                s \in {sums(vec1, vec2, 1,
                            [dotProduct |-> double(0), mag1 |-> double(0),
                             mag2 |-> double(0)])}})

\* this.files.map((file) => ({path, content, score}))
scored(store, queryEmbedding) ==
  [i \in 1..Len(store) |->
     [path |-> store[i].path, content |-> store[i].content,
      score |-> calculateCosineSimilarity(queryEmbedding,
                                          store[i].embedding)]]
    \o <<>>

\* the comparator (a, b) => b.score - a.score
byScore(a, b) == minus(b.score, a.score)

\* x put into the sorted list before the first entry it must precede
RECURSIVE inserted(_, _)
inserted(list, x) ==
  IF list = <<>> THEN <<x>>
  ELSE IF negative(byScore(x, Head(list))) THEN <<x>> \o list
  ELSE <<Head(list)>> \o inserted(Tail(list), x)

\* the results left in the order of the files
sortedNot(results, n) == SubSeq(results, 1, n)

\* results.sort(byScore): a stable sort, here the first n entries
RECURSIVE sorted(_, _)
sorted(results, n) ==
  IF n = 0 THEN <<>> ELSE inserted(sorted(results, n - 1), results[n])

\* results.slice(0, limit) for a limit that is a natural number
slice(results, limit) == SubSeq(results, 1, min(limit, Len(results)))

(***************************************************************************)
(* JavaScript values met on the remote path                                *)
(***************************************************************************)
undefined == [type |-> "undefined"]

null == [type |-> "null"]

\* a string, as the sequence of its characters
string(chars) == [type |-> "string", chars |-> chars]

\* a number; a confidence level is counted in tenths
number(n) == [type |-> "number", value |-> n]

\* an array of strings
array(items) == [type |-> "array", items |-> items]

\* an object, given by its fields
object(fields) == [type |-> "object", fields |-> fields]

\* the values the left side of || passes on: not undefined, null, 0 or ''
truthy(v) ==
  CASE v.type \in {"undefined", "null"} -> FALSE
    [] v.type = "string" -> v.chars # <<>>
    [] v.type = "number" -> v.value # 0
    [] OTHER -> TRUE

\* Array.isArray(v) ? v : []
arrayOrEmpty(v) == IF v.type = "array" THEN v.items ELSE <<>>

UpperCase ==
  <<"A", "B", "C", "D", "E", "F", "G", "H", "I", "J", "K", "L", "M", "N",
    "O", "P", "Q", "R", "S", "T", "U", "V", "W", "X", "Y", "Z">>

LowerCase ==
  <<"a", "b", "c", "d", "e", "f", "g", "h", "i", "j", "k", "l", "m", "n",
    "o", "p", "q", "r", "s", "t", "u", "v", "w", "x", "y", "z">>

\* String.prototype.toLowerCase
toLowerCase(chars) ==
  [i \in 1..Len(chars) |->
     IF \E k \in 1..26 : UpperCase[k] = chars[i]
     THEN LowerCase[CHOOSE k \in 1..26 : UpperCase[k] = chars[i]]
     ELSE chars[i]]

\* String.prototype.includes
charsInclude(chars, part) ==
  \E i \in 0..(Len(chars) - Len(part)) :
     \A j \in 1..Len(part) : chars[i + j] = part[j]

(***************************************************************************)
(* AIClient: the remote path                                               *)
(***************************************************************************)
\* a key that is not null, the empty string included
hasApiKeyNotNull(key) == key # null

\* !this.apiKey is false
hasApiKey(key) == truthy(key)

\* level?.toLowerCase() throws: level is neither undefined, null nor a string
normalizeThrows(level) == level.type \notin {"undefined", "null", "string"}

\* the markers looked for in the level as given, not lower-cased
normalizeCaseSensitive(level) ==
  LET normalized == IF level.type = "string" THEN level.chars ELSE <<>>
  IN  IF charsInclude(normalized, <<"l", "o", "w">>) THEN "Low"
      ELSE IF charsInclude(normalized, <<"m", "e", "d">>) THEN "Medium"
      ELSE IF charsInclude(normalized, <<"h", "i", "g", "h">>) THEN "High"
      ELSE IF charsInclude(normalized, <<"c", "r", "i", "t">>) THEN "Critical"
      ELSE "Medium"

\* normalizeRiskLevel(level), for a level on which it does not throw
normalizeRiskLevel(level) ==
  LET normalized == IF level.type = "string" THEN toLowerCase(level.chars)
                    ELSE <<>>
  IN  IF charsInclude(normalized, <<"l", "o", "w">>) THEN "Low"
      ELSE IF charsInclude(normalized, <<"m", "e", "d">>) THEN "Medium"
      ELSE IF charsInclude(normalized, <<"h", "i", "g", "h">>) THEN "High"
      ELSE IF charsInclude(normalized, <<"c", "r", "i", "t">>) THEN "Critical"
      ELSE "Medium"

\* code.substring(0, limit) as sent in the prompt: the text and how many of
\* its characters are kept
substring(text, limit) ==
  [text |-> text, chars |-> min(length(text), limit)]

\* the parts of a generated text that are JSON object literals; the other
\* parts are prose without braces
objectParts(generated) ==
  {i \in 1..Len(generated) : generated[i].type = "object"}

\* jsonText.substring(jsonText.indexOf('{'), jsonText.lastIndexOf('}') + 1):
\* from the first brace to the last one
jsonText(generated) ==
  IF objectParts(generated) = {} THEN <<>>
  ELSE LET first == CHOOSE i \in objectParts(generated) :
                      \A j \in objectParts(generated) : i <= j
           last == CHOOSE i \in objectParts(generated) :
                     \A j \in objectParts(generated) : i >= j
       IN  SubSeq(generated, first, last)

\* JSON.parse(jsonText) throws unless the text is one object literal
parseThrows(text) == Len(text) # 1

\* JSON.parse(jsonText), for a text on which it does not throw
parse(text) == text[1].fields

\* the inner try block throws: data[0] is undefined, or the generated text
\* does not parse
extractThrows(data) ==
  \/ data.type # "array"
  \/ Len(data.items) = 0
  \/ parseThrows(jsonText(data.items[1].generated_text))

\* parsedResult of the inner try block
parsedResult(data) == parse(jsonText(data.items[1].generated_text))

\* the inner try block of generateSecurityReport throws, and its catch
\* returns this.localSecurityAnalysis(request)
securityThrows(data) ==
  extractThrows(data) \/ normalizeThrows(parsedResult(data).riskLevel)

\* the report the inner try block of generateSecurityReport returns when it
\* does not throw
securityFromData(data) ==
  LET parsed == parsedResult(data)
  IN  [riskLevel |-> normalizeRiskLevel(parsed.riskLevel),
       threats |-> arrayOrEmpty(parsed.threats),
       recommendations |-> arrayOrEmpty(parsed.recommendations),
       confidenceLevel |->
         IF truthy(parsed.confidenceLevel)
         THEN parsed.confidenceLevel.value ELSE 5]

\* the report the inner try block of optimizeEcoImpact returns when it does
\* not throw
ecoFromData(data) ==
  LET parsed == parsedResult(data)
  IN  [ecoScore |-> IF truthy(parsed.ecoScore)
                    THEN parsed.ecoScore.value ELSE 50,
       issues |-> arrayOrEmpty(parsed.issues),
       suggestions |-> arrayOrEmpty(parsed.suggestions),
       details |-> IF truthy(parsed.details)
                   THEN parsed.details.fields ELSE <<>>]

RECURSIVE joinLines(_)
\* the lines of a text on one line: trim().replace(/\s*\n\s*/g, ' ')
joinLines(lines) ==
  IF Len(lines) = 0 THEN ""
  ELSE IF Len(lines) = 1 THEN lines[1]
  ELSE lines[1] \o " " \o joinLines(Tail(lines))

\* the ``` mark, written with quotes: a string here cannot hold a backquote
fence == "'''"

RECURSIVE joinSegments(_)
\* the generated text whole, the ``` marks between its segments included
joinSegments(segments) ==
  IF Len(segments) = 1 THEN segments[1]
  ELSE LET rest == joinSegments(Tail(segments))
           head == segments[1]
       IN  IF Len(head) = 0 /\ Len(rest) = 0 THEN <<fence>>
           ELSE IF Len(head) = 0
           THEN <<fence \o rest[1]>> \o Tail(rest)
           ELSE IF Len(rest) = 0
           THEN SubSeq(head, 1, Len(head) - 1)
                  \o <<head[Len(head)] \o fence>>
           ELSE SubSeq(head, 1, Len(head) - 1)
                  \o <<head[Len(head)] \o fence \o rest[1]>>
                  \o Tail(rest)

\* data[0]?.generated_text is falsy, and explainCode goes on to return
\* this.localCodeExplanation(code); a generated text is the sequence of its
\* segments between ``` marks, each the sequence of its lines
explainEmpty(data) ==
  \/ data.type # "array"
  \/ Len(data.items) = 0
  \/ data.items[1].generated_text = <<<<>>>>

\* the explanation explainCode returns from a generated text
explainFromData(data) ==
  LET segments == data.items[1].generated_text
      last == segments[Len(segments)]
      explanation == IF Len(segments) > 1 /\ Len(last) > 0 THEN last
                     ELSE joinSegments(segments)
  IN  joinLines(explanation)

(***************************************************************************)
(* localSecurityAnalysis, check by check                                   *)
(***************************************************************************)
running == [riskLevel |-> riskLevel, threats |-> threats,
            recommendations |-> recommendations]

SecInputs == SubsetsUpTo(SecFrags, MaxFrags)

\* no local security analysis is running
SecIdle ==
  /\ request = {}
  /\ pc = 0
  /\ language = "unknown"
  /\ confidenceLevel = 6
  /\ riskLevel = "Low"
  /\ threats = <<>>
  /\ recommendations = <<>>
  /\ applied = {}

\* no local eco analysis is running
EcoIdle ==
  /\ code = {}
  /\ ecoPc = 0
  /\ ecoLanguage = "unknown"
  /\ baseScore = 70
  /\ ecoScore = 0
  /\ issues = <<>>
  /\ suggestions = <<>>

\* the views as mounted: useState(false), useState(''); no handler has
\* called the client
UiIdle ==
  /\ views = [v \in {"security", "eco", "intelligence"} |->
               [useAI |-> FALSE, apiKey |-> <<>>]]
  /\ analysis = [view |-> "none", enhanced |-> FALSE]

\* the store as constructed: private files: FileWithEmbedding[] = []
StoreIdle ==
  /\ files = <<>>
  /\ searched = [none |-> TRUE]

\* no function called on its own
PureIdle ==
  /\ args = [none |-> TRUE]
  /\ returnValue = [none |-> TRUE]

\* CodeIntelligence as mounted: no folder selected, useState([])
FolderIdle ==
  /\ selections = <<>>
  /\ loadedFiles = <<>>

\* no report has been returned yet, the store is empty
AuxIdle ==
  /\ reports = <<>>
  /\ StoreIdle
  /\ PureIdle
  /\ FolderIdle

\* the client as constructed, without a key in the environment
ClientIdle ==
  /\ apiKey = null
  /\ call = [method |-> "none", text |-> {}]
  /\ callPc = "idle"
  /\ fetched = <<>>
  /\ response = [kind |-> "none"]
  /\ result = [none |-> TRUE]
  /\ path = "none"

InitSec ==
  /\ request \in SecInputs
  /\ pc = 0
  /\ language = "unknown"
  /\ confidenceLevel = 6
  /\ riskLevel = "Low"
  /\ threats = <<>>
  /\ recommendations = <<>>
  /\ applied = {}
  /\ EcoIdle
  /\ ClientIdle
  /\ UiIdle
  /\ AuxIdle

\* lines 516-552: language detection and confidence
DetectLanguage ==
  /\ pc = 0
  /\ language' = detectLanguage(request)
  /\ confidenceLevel' = confidence(request, language')
  /\ pc' = 1
  /\ UNCHANGED <<request, riskLevel, threats, recommendations, applied>>
  /\ UNCHANGED <<ecoVars, clientVars, uiVars, auxVars>>

\* lines 554-1031: the next check
Detect ==
  /\ pc \in 1..Len(Detectors)
  /\ LET r == detector(Detectors[pc], running, request, language)
     IN  /\ riskLevel' = r.riskLevel
         /\ threats' = r.threats
         /\ recommendations' = r.recommendations
  /\ pc' = pc + 1
  /\ UNCHANGED <<request, language, confidenceLevel, applied>>
  /\ UNCHANGED <<ecoVars, clientVars, uiVars, auxVars>>

\* lines 1033-1115: recommendations for the threats found
Recommend ==
  /\ pc = Len(Detectors) + 1
  /\ recommendations' = addRecommendations(recommendations, threats, 1)
  /\ pc' = pc + 1
  /\ UNCHANGED <<request, language, confidenceLevel, riskLevel, threats,
               applied>>
  /\ UNCHANGED <<ecoVars, clientVars, uiVars, auxVars>>

\* lines 1117-1134: neutral entries and return
Return ==
  /\ pc = Len(Detectors) + 2
  /\ LET r == withFallbacks(running)
     IN  /\ threats' = r.threats
         /\ recommendations' = r.recommendations
  /\ pc' = pc + 1
  /\ UNCHANGED <<request, language, confidenceLevel, riskLevel, applied>>
  /\ UNCHANGED <<ecoVars, clientVars, uiVars, auxVars>>

returned == pc = Len(Detectors) + 3

NextSec == DetectLanguage \/ Detect \/ Recommend \/ Return

SpecSec == InitSec /\ [][NextSec]_vars

(***************************************************************************)
(* The checks of localSecurityAnalysis applied in a free order             *)
(***************************************************************************)
\* the checks whose condition holds for the text
firing(text, lang) ==
  {Detectors[i] : i \in {j \in 1..Len(Detectors) :
                           fires(Detectors[j], text, lang)}}

InitOrder ==
  /\ request \in SecInputs
  /\ pc = 1
  /\ language = detectLanguage(request)
  /\ confidenceLevel = confidence(request, language)
  /\ riskLevel = "Low"
  /\ threats = <<>>
  /\ recommendations = <<>>
  /\ applied = {}
  /\ EcoIdle
  /\ ClientIdle
  /\ UiIdle
  /\ AuxIdle

\* any check not applied yet whose condition holds is applied next
DetectAny ==
  /\ pc = 1
  /\ \E d \in firing(request, language) \ applied :
       LET r == detector(d, running, request, language)
       IN  /\ riskLevel' = r.riskLevel
           /\ threats' = r.threats
           /\ recommendations' = r.recommendations
           /\ applied' = applied \cup {d}
  /\ UNCHANGED <<request, pc, language, confidenceLevel>>
  /\ UNCHANGED <<ecoVars, clientVars, uiVars, auxVars>>

allApplied == applied = firing(request, language)

SpecOrder == InitOrder /\ [][DetectAny]_vars

(***************************************************************************)
(* localEcoAnalysis, rule by rule                                          *)
(***************************************************************************)
ecoRunning == [baseScore |-> baseScore, issues |-> issues,
               suggestions |-> suggestions]

EcoInputs == SubsetsUpTo(EcoFrags, MaxFrags)

\* ecoScore is not declared before line 1594
InitEco ==
  /\ code \in EcoInputs
  /\ ecoPc = 0
  /\ ecoLanguage = "unknown"
  /\ baseScore = 70
  /\ ecoScore = 0
  /\ issues = <<>>
  /\ suggestions = <<>>
  /\ SecIdle
  /\ ClientIdle
  /\ UiIdle
  /\ AuxIdle

\* lines 1156-1196: language detection and the initial score
EcoDetectLanguage ==
  /\ ecoPc = 0
  /\ ecoLanguage' = ecoDetectLanguage(code)
  /\ baseScore' = initialBaseScore(ecoLanguage')
  /\ ecoPc' = 1
  /\ UNCHANGED <<code, ecoScore, issues, suggestions>>
  /\ UNCHANGED <<secVars, applied, clientVars, uiVars, auxVars>>

\* lines 1198-1591: the next rule
EcoRule ==
  /\ ecoPc \in 1..Len(EcoRules)
  /\ LET r == ecoRule(EcoRules[ecoPc], ecoRunning, code, ecoLanguage)
     IN  /\ baseScore' = r.baseScore
         /\ issues' = r.issues
         /\ suggestions' = r.suggestions
  /\ ecoPc' = ecoPc + 1
  /\ UNCHANGED <<code, ecoLanguage, ecoScore>>
  /\ UNCHANGED <<secVars, applied, clientVars, uiVars, auxVars>>

\* lines 1593-1614: the score, the large-file entry and the clamp
EcoScore ==
  /\ ecoPc = Len(EcoRules) + 1
  /\ LET r == score(ecoRunning, code)
     IN  /\ ecoScore' = r.ecoScore
         /\ issues' = r.issues
         /\ suggestions' = r.suggestions
  /\ ecoPc' = ecoPc + 1
  /\ UNCHANGED <<code, ecoLanguage, baseScore>>
  /\ UNCHANGED <<secVars, applied, clientVars, uiVars, auxVars>>

\* lines 1616-1665: generic entries, the bonus and return
EcoReturn ==
  /\ ecoPc = Len(EcoRules) + 2
  /\ LET r == ecoFallbacks([ecoScore |-> ecoScore, issues |-> issues,
                            suggestions |-> suggestions], ecoLanguage)
     IN  /\ ecoScore' = r.ecoScore
         /\ issues' = r.issues
         /\ suggestions' = r.suggestions
  /\ ecoPc' = ecoPc + 1
  /\ UNCHANGED <<code, ecoLanguage, baseScore>>
  /\ UNCHANGED <<secVars, applied, clientVars, uiVars, auxVars>>

ecoReturned == ecoPc = Len(EcoRules) + 3

NextEco == EcoDetectLanguage \/ EcoRule \/ EcoScore \/ EcoReturn

SpecEco == InitEco /\ [][NextEco]_vars

(***************************************************************************)
(* AIClient: generateSecurityReport, optimizeEcoImpact and explainCode     *)
(***************************************************************************)
\* the key found in NEXT_PUBLIC_HUGGINGFACE_API_KEY, when there is one
EnvKey == string(<<"h", "f", "_", "e", "n", "v">>)

\* the keys setApiKey is called with
Keys == {string(<<>>), string(<<"h", "f", "_", "u", "s", "e", "r">>)}

Methods == {"generateSecurityReport", "optimizeEcoImpact", "explainCode"}

\* the fragments the texts given to the client are built from
ClientFrags ==
  {"def run(): import os", "req.body", "select * from users", "<pad:10000>"}

ClientInputs == SubsetsUpTo(ClientFrags, MaxFrags)

\* const codeToAnalyze = request.substring(0, 10000), code.substring(0, 5000)
promptLimit(method) == IF method = "explainCode" THEN 5000 ELSE 10000

\* the model a method posts to
modelOf(method) ==
  CASE method = "generateSecurityReport" -> "Xenova/distilbart-cnn-12-6"
    [] method = "explainCode" -> "Salesforce/codet5-base"
    [] method = "optimizeEcoImpact" -> "google/flan-t5-base"

\* the local engine of a method
localResult(method, text) ==
  CASE method = "generateSecurityReport" -> localSecurityAnalysis(text)
    [] method = "explainCode" -> localCodeExplanation(text)
    [] method = "optimizeEcoImpact" -> localEcoAnalysis(text)

\* the data response.json() gave make the method turn to its local engine
turnsLocal(method, data) ==
  CASE method = "generateSecurityReport" -> securityThrows(data)
    [] method = "explainCode" -> explainEmpty(data)
    [] method = "optimizeEcoImpact" -> extractThrows(data)

\* what a method returns from the data response.json() gave when it does not
\* turn to its local engine
fromData(method, data) ==
  CASE method = "generateSecurityReport" -> securityFromData(data)
    [] method = "explainCode" -> explainFromData(data)
    [] method = "optimizeEcoImpact" -> ecoFromData(data)

\* prose without braces
prose == [type |-> "prose"]

\* the values a response may give riskLevel
RiskLevelValues ==
  {undefined, null, number(5), string(<<>>),
   string(<<"L", "o", "w">>), string(<<"M", "e", "d", "i", "u", "m">>),
   string(<<"H", "i", "g", "h">>),
   string(<<"C", "r", "i", "t", "i", "c", "a", "l">>),
   string(<<"C", "R", "I", "T", "I", "C", "A", "L">>),
   string(<<"s", "e", "v", "e", "r", "e">>),
   string(<<"f", "o", "l", "l", "o", "w", " ", "u", "p">>)}

\* the values a response may give a list field
ListValues ==
  {undefined, string(<<"n", "o", "n", "e">>), array(<<"Reported remotely">>)}

\* the values a response may give confidenceLevel, in tenths
ConfidenceValues == {undefined, number(0), number(9), number(15)}

\* the values a response may give ecoScore
EcoScoreValues ==
  {undefined, null, number(0), number(20), number(35), number(95),
   number(100)}

\* the values a response may give details
DetailsValues == {undefined, object([model |-> "google/flan-t5-base"])}

\* the JSON objects a generated text may hold
SecurityObjects ==
  {object([riskLevel |-> r, threats |-> t, recommendations |-> c,
           confidenceLevel |-> l]) :
     r \in RiskLevelValues, t \in ListValues, c \in {undefined} \cup
       {array(<<"Recommended remotely">>)}, l \in ConfidenceValues}

EcoObjects ==
  {object([ecoScore |-> s, issues |-> i, suggestions |-> g, details |-> d]) :
     s \in EcoScoreValues, i \in ListValues,
     g \in {undefined} \cup {array(<<"Suggested remotely">>)},
     d \in DetailsValues}

\* the texts a model may generate around its JSON objects
GeneratedTexts(objects) ==
  {<<>>, <<prose>>}
    \cup {<<o>> : o \in objects}
    \cup {<<prose, o, prose>> : o \in objects}
    \cup {<<o, prose, o>> : o \in objects}

\* the explanations a model may generate: segments between ``` marks, each
\* the sequence of its lines
GeneratedExplanations ==
  {<<<<>>>>, <<<<"It sorts a list.">>>>,
   <<<<"It sorts", "a list.">>>>,
   <<<<"Explain this code">>, <<"def run()">>, <<"It runs.", "Then stops.">>>>,
   <<<<"It runs.">>, <<>>>>}

\* what response.json() may resolve with for a method
DataValues(method) ==
  {object([error |-> "Model is currently loading"]), array(<<>>)}
    \cup {array(<<[generated_text |-> g]>>) :
            g \in CASE method = "generateSecurityReport" ->
                         GeneratedTexts(SecurityObjects)
                    [] method = "optimizeEcoImpact" ->
                         GeneratedTexts(EcoObjects)
                    [] method = "explainCode" -> GeneratedExplanations}

\* a body that is not JSON, on which response.json() rejects
notJson == [type |-> "notJson"]

\* the status codes of the responses
Statuses == {200, 500}

InitClient ==
  /\ apiKey \in {null, EnvKey}
  /\ call = [method |-> "none", text |-> {}]
  /\ callPc = "idle"
  /\ fetched = <<>>
  /\ response = [kind |-> "none"]
  /\ result = [none |-> TRUE]
  /\ path = "none"
  /\ SecIdle
  /\ EcoIdle
  /\ UiIdle
  /\ AuxIdle

\* setApiKey(apiKey); the part of a method that runs its local engine is
\* synchronous, so that no other call of the client runs within it
SetApiKey ==
  /\ callPc # "local"
  /\ \E key \in Keys : apiKey' = key
  /\ UNCHANGED <<call, callPc, fetched, response, result, path>>
  /\ UNCHANGED <<secVars, applied, ecoVars, uiVars, auxVars>>

\* a method is called: without a key it turns to its local engine, with a
\* key it posts the prompt and awaits the response
Call ==
  /\ callPc = "idle"
  /\ \E method \in Methods, text \in ClientInputs :
       /\ call' = [method |-> method, text |-> text]
       /\ IF ~hasApiKey(apiKey)
          THEN /\ fetched' = <<>>
               /\ callPc' = "local"
          ELSE /\ fetched' =
                    <<[model |-> modelOf(method), authorization |-> apiKey,
                       code |-> substring(text, promptLimit(method))]>>
               /\ callPc' = "fetch"
  /\ UNCHANGED <<apiKey, response, result, path>>
  /\ UNCHANGED <<secVars, applied, ecoVars, uiVars, auxVars>>

\* fetch rejects: the outer catch turns to the local engine
FetchRejects ==
  /\ callPc = "fetch"
  /\ response' = [kind |-> "rejected"]
  /\ callPc' = "local"
  /\ UNCHANGED <<apiKey, call, fetched, result, path>>
  /\ UNCHANGED <<secVars, applied, ecoVars, uiVars, auxVars>>

\* fetch resolves with a response, whatever its status
FetchResolves ==
  /\ callPc = "fetch"
  /\ \E status \in Statuses, body \in {notJson} \cup DataValues(call.method) :
       response' = [kind |-> "response", status |-> status, body |-> body]
  /\ callPc' = "json"
  /\ UNCHANGED <<apiKey, call, fetched, result, path>>
  /\ UNCHANGED <<secVars, applied, ecoVars, uiVars, auxVars>>

\* response.json() settles: when it rejects the outer catch turns to the
\* local engine, otherwise the method handles the data and returns what it
\* makes of them or turns to the local engine
JsonSettles ==
  /\ callPc = "json"
  /\ IF response.body = notJson \/ turnsLocal(call.method, response.body)
     THEN /\ callPc' = "local"
          /\ UNCHANGED <<result, path>>
     ELSE /\ result' = fromData(call.method, response.body)
          /\ path' = "remote"
          /\ callPc' = "done"
  /\ UNCHANGED <<apiKey, call, fetched, response>>
  /\ UNCHANGED <<secVars, applied, ecoVars, uiVars, auxVars>>

\* return this.localSecurityAnalysis(request), this.localCodeExplanation(code)
\* or this.localEcoAnalysis(code): the method returns the result of its local
\* engine on the text it was called with
ReturnLocal ==
  /\ callPc = "local"
  /\ result' = localResult(call.method, call.text)
  /\ path' = "local"
  /\ callPc' = "done"
  /\ UNCHANGED <<apiKey, call, fetched, response>>
  /\ UNCHANGED <<secVars, applied, ecoVars, uiVars, auxVars>>

\* the promise of the call resolves: the caller takes the result
Resolve ==
  /\ callPc = "done"
  /\ call' = [method |-> "none", text |-> {}]
  /\ callPc' = "idle"
  /\ fetched' = <<>>
  /\ response' = [kind |-> "none"]
  /\ result' = [none |-> TRUE]
  /\ path' = "none"
  /\ UNCHANGED apiKey
  /\ UNCHANGED <<secVars, applied, ecoVars, uiVars, auxVars>>

NextClient ==
  \/ SetApiKey
  \/ Call
  \/ FetchRejects
  \/ FetchResolves
  \/ JsonSettles
  \/ ReturnLocal
  \/ Resolve

SpecClient == InitClient /\ [][NextClient]_vars

(***************************************************************************)
(* The views: Security Analyzer, Eco Analyzer and Code Intelligence        *)
(***************************************************************************)
Views == {"security", "eco", "intelligence"}

\* the views with a 'Use AI' switch
SwitchedViews == {"security", "eco"}

\* what is typed in the API key field of a view
ViewKeys == {<<>>, <<"h", "f", "_", "v", "i", "e", "w">>}

\* the texts the views analyse: their buttons are disabled on blank text
ViewInputs == SubsetsUpTo({"req.body"}, MaxFrags) \ {{}}

\* the method of the client a view calls
viewMethod(v) ==
  CASE v = "security" -> "generateSecurityReport"
    [] v = "eco" -> "optimizeEcoImpact"
    [] v = "intelligence" -> "explainCode"

\* useAI && apiKey of a view; Code Intelligence has no switch and asks for
\* a key alone
enhancedIn(v) ==
  /\ v \in SwitchedViews => views[v].useAI
  /\ views[v].apiKey # <<>>

\* {useAI && apiKey ? 'AI-Enhanced' : 'Local Analysis'}: the badge a view
\* renders with its result
badge(v) == IF enhancedIn(v) THEN "AI-Enhanced" ELSE "Local Analysis"

\* a handler calls a method of the client, whose apiKey is then key: the
\* method up to its first await
Invoke(method, text, key) ==
  /\ call' = [method |-> method, text |-> text]
  /\ IF ~hasApiKey(key)
     THEN /\ fetched' = <<>>
          /\ callPc' = "local"
     ELSE /\ fetched' =
               <<[model |-> modelOf(method), authorization |-> key,
                  code |-> substring(text, promptLimit(method))]>>
          /\ callPc' = "fetch"

\* onCheckedChange={setUseAI}
ToggleUseAI ==
  /\ callPc # "local"
  /\ \E v \in SwitchedViews :
       views' = [views EXCEPT ![v].useAI = ~views[v].useAI]
  /\ UNCHANGED <<analysis, clientVars>>
  /\ UNCHANGED <<secVars, applied, ecoVars, auxVars>>

\* onChange={(e) => setApiKey(e.target.value)} of the key field of a view
EditApiKey ==
  /\ callPc # "local"
  /\ \E v \in Views, key \in ViewKeys :
       /\ key # views[v].apiKey
       /\ views' = [views EXCEPT ![v].apiKey = key]
  /\ UNCHANGED <<analysis, clientVars>>
  /\ UNCHANGED <<secVars, applied, ecoVars, auxVars>>

\* handleAnalyzeClick of the Security Analyzer and of the Eco Analyzer, up
\* to the first await of the method it calls
AnalyzeClick ==
  /\ callPc = "idle"
  /\ \E v \in SwitchedViews, text \in ViewInputs :
       /\ apiKey' = IF enhancedIn(v) THEN string(views[v].apiKey)
                    ELSE apiKey
       /\ Invoke(viewMethod(v), text, apiKey')
       /\ analysis' = [view |-> v, enhanced |-> enhancedIn(v)]
  /\ UNCHANGED <<response, result, path, views>>
  /\ UNCHANGED <<secVars, applied, ecoVars, auxVars>>

\* handleExplainCode of Code Intelligence, up to the first await of
\* explainCode
ExplainClick ==
  /\ callPc = "idle"
  /\ views["intelligence"].apiKey # <<>>
  /\ \E text \in ViewInputs :
       /\ apiKey' = string(views["intelligence"].apiKey)
       /\ Invoke("explainCode", text, apiKey')
       /\ analysis' = [view |-> "intelligence", enhanced |-> TRUE]
  /\ UNCHANGED <<response, result, path, views>>
  /\ UNCHANGED <<secVars, applied, ecoVars, auxVars>>

InitViews ==
  /\ ClientIdle
  /\ SecIdle
  /\ EcoIdle
  /\ UiIdle
  /\ AuxIdle

NextViews ==
  \/ ToggleUseAI
  \/ EditApiKey
  \/ AnalyzeClick
  \/ ExplainClick
  \/ FetchRejects
  \/ FetchResolves
  \/ JsonSettles
  \/ ReturnLocal
  \/ Resolve

SpecViews == InitViews /\ [][NextViews]_vars

(***************************************************************************)
(* The local engines called again and again on one client                  *)
(***************************************************************************)
\* the texts the engines are called with, and the engines
RepeatFrags == {"exec(args)", "for (i) { for (j) { } }"}
RepeatInputs == SubsetsUpTo(RepeatFrags, MaxFrags)
Engines == {"localSecurityAnalysis", "localEcoAnalysis"}

\* locals that outlive the call: the values the last call left behind
securityEntryKept(text) ==
  [riskLevel |-> riskLevel, threats |-> threats,
   recommendations |-> recommendations]

\* lines 512-514: the locals of localSecurityAnalysis as declared on entry
securityEntry(text) ==
  [riskLevel |-> "Low", threats |-> <<>>, recommendations |-> <<>>]

\* lines 1153-1154: the locals of localEcoAnalysis as declared on entry
ecoEntry(text) == [issues |-> <<>>, suggestions |-> <<>>]

\* neither engine has been called: both rest behind their return
Rested ==
  /\ request = {}
  /\ pc = Len(Detectors) + 3
  /\ language = "unknown"
  /\ confidenceLevel = 6
  /\ riskLevel = "Low"
  /\ threats = <<>>
  /\ recommendations = <<>>
  /\ applied = {}
  /\ code = {}
  /\ ecoPc = Len(EcoRules) + 3
  /\ ecoLanguage = "unknown"
  /\ baseScore = 70
  /\ ecoScore = 0
  /\ issues = <<>>
  /\ suggestions = <<>>

\* the report the engine that is running returns
returnedReport ==
  IF call.method = "localSecurityAnalysis"
  THEN [riskLevel |-> riskLevel, threats |-> threats,
        recommendations |-> recommendations,
        confidenceLevel |-> confidenceLevel]
  ELSE [ecoScore |-> ecoScore, issues |-> issues,
        suggestions |-> suggestions,
        details |-> ecoDetails(code, ecoLanguage, Len(issues))]

\* the running engine has reached its return statement
engineReturned ==
  \/ call.method = "localSecurityAnalysis" /\ returned
  \/ call.method = "localEcoAnalysis" /\ ecoReturned

\* an engine is entered with a text: its locals are declared afresh
CallEngine ==
  /\ call.method = "none"
  /\ \E engine \in Engines, text \in RepeatInputs :
       /\ call' = [method |-> engine, text |-> text]
       /\ IF engine = "localSecurityAnalysis"
          THEN /\ request' = text
               /\ pc' = 0
               /\ language' = "unknown"
               /\ confidenceLevel' = 6
               /\ riskLevel' = securityEntry(text).riskLevel
               /\ threats' = securityEntry(text).threats
               /\ recommendations' = securityEntry(text).recommendations
               /\ UNCHANGED ecoVars
          ELSE /\ code' = text
               /\ ecoPc' = 0
               /\ ecoLanguage' = "unknown"
               /\ baseScore' = 70
               /\ issues' = ecoEntry(text).issues
               /\ suggestions' = ecoEntry(text).suggestions
               /\ UNCHANGED ecoScore
               /\ UNCHANGED secVars
  /\ UNCHANGED <<apiKey, callPc, fetched, response, result, path>>
  /\ UNCHANGED <<applied, uiVars, auxVars>>

\* the caller receives the report; the first report for a text is kept
ReceiveReport ==
  /\ engineReturned
  /\ reports' = IF <<call.method, call.text>> \in DOMAIN reports
                THEN reports
                ELSE reports @@ (<<call.method, call.text>> :> returnedReport)
  /\ call' = [method |-> "none", text |-> {}]
  /\ UNCHANGED <<apiKey, callPc, fetched, response, result, path>>
  /\ UNCHANGED <<secVars, applied, ecoVars, uiVars, storeVars, pureVars, folderVars>>

InitRepeat ==
  /\ Rested
  /\ ClientIdle
  /\ UiIdle
  /\ AuxIdle

NextRepeat ==
  \/ CallEngine
  \/ DetectLanguage
  \/ Detect
  \/ Recommend
  \/ Return
  \/ EcoDetectLanguage
  \/ EcoRule
  \/ EcoScore
  \/ EcoReturn
  \/ ReceiveReport

SpecRepeat == InitRepeat /\ [][NextRepeat]_vars

(***************************************************************************)
(* The vector store of the security analyzer                               *)
(***************************************************************************)
\* the most files added before the store is cleared
MaxFiles == 2

\* the largest limit given to search, besides the default
MaxLimit == 3

\* limit = 5
defaultLimit == 5

StorePath == "main.ts"
StoreTexts == {"a", "b"}
StoreRuns == {[i \in 1..11 |-> lowest], [i \in 1..11 |-> highest]}
Limits == 0..MaxLimit \cup {defaultLimit}

\* search up to the sort: every file scored against the query, best first
ranked(store, query, random) ==
  IF Len(store) = 0 THEN <<>>
  ELSE sorted(scored(store, generateTextEmbedding(query, random)),
              Len(store))

\* an addFile that keeps one entry for a path
AddFileByPath ==
  /\ searched = [none |-> TRUE]
  /\ Len(files) <= MaxFiles
  /\ \E content \in StoreTexts, random \in StoreRuns :
       files' = <<[path |-> StorePath, content |-> content,
                   embedding |-> generateTextEmbedding(content, random)]>>
  /\ UNCHANGED <<secVars, applied, ecoVars, clientVars, uiVars, reports, folderVars>>
  /\ UNCHANGED <<searched, pureVars>>

\* vectorStore.addFile(path, content)
AddFile ==
  /\ searched = [none |-> TRUE]
  /\ Len(files) < MaxFiles
  /\ \E content \in StoreTexts, random \in StoreRuns :
       files' = Append(files,
                       [path |-> StorePath, content |-> content,
                        embedding |-> generateTextEmbedding(content, random)])
  /\ UNCHANGED <<secVars, applied, ecoVars, clientVars, uiVars, reports, folderVars>>
  /\ UNCHANGED <<searched, pureVars>>

\* vectorStore.search(query, limit)
Search ==
  /\ searched = [none |-> TRUE]
  /\ \E query \in StoreTexts, random \in StoreRuns :
       \E results \in {ranked(files, query, random)} :
         \E limit \in Limits :
           searched' = [query |-> query, random |-> random, limit |-> limit,
                        returned |-> slice(results, limit)]
  /\ UNCHANGED <<secVars, applied, ecoVars, clientVars, uiVars, reports, folderVars>>
  /\ UNCHANGED <<files, pureVars>>

\* vectorStore.getFiles()
GetFiles ==
  /\ searched = [none |-> TRUE]
  /\ searched' = [returned |-> [i \in 1..Len(files) |->
                                 [path |-> files[i].path,
                                  content |-> files[i].content]]]
  /\ UNCHANGED <<secVars, applied, ecoVars, clientVars, uiVars, reports, folderVars>>
  /\ UNCHANGED <<files, pureVars>>

\* the caller of search or of getFiles takes the list it asked for
TakeResults ==
  /\ searched # [none |-> TRUE]
  /\ searched' = [none |-> TRUE]
  /\ UNCHANGED <<secVars, applied, ecoVars, clientVars, uiVars, reports, folderVars>>
  /\ UNCHANGED <<files, pureVars>>

\* vectorStore.clear()
Clear ==
  /\ searched = [none |-> TRUE]
  /\ files # <<>>
  /\ files' = <<>>
  /\ UNCHANGED <<secVars, applied, ecoVars, clientVars, uiVars, reports, folderVars>>
  /\ UNCHANGED <<searched, pureVars>>

InitStore ==
  /\ Rested
  /\ ClientIdle
  /\ UiIdle
  /\ AuxIdle

NextStore ==
  \/ AddFile
  \/ Search
  \/ GetFiles
  \/ TakeResults
  \/ Clear

SpecStore == InitStore /\ [][NextStore]_vars

(***************************************************************************)
(* CodeIntelligence: handleFolderSelect and handleSearch on the shared     *)
(* vectorStore                                                             *)
(***************************************************************************)
\* the most folder selections made in one run
MaxSelections == 2

\* the folders the user selects from: the files of e.target.files, each
\* with its webkitRelativePath, its text and its kind: source (a name the
\* filter accepts), other (a type and a name the filter skips), hidden (a
\* name that starts with "."), unreadable (a source whose text() rejects)
Folders ==
  {<<[path |-> "a/main.ts", content |-> "a", kind |-> "source"],
     [path |-> "a/.env", content |-> "b", kind |-> "hidden"]>>,
   <<[path |-> "b/logo.png", content |-> "b", kind |-> "other"],
     [path |-> "b/lib.ts", content |-> "b", kind |-> "source"],
     [path |-> "b/gone.ts", content |-> "a", kind |-> "unreadable"]>>}

\* the run of Math.random the embeddings are made with
FolderRun == [i \in 1..11 |-> lowest]

\* the query typed in the search box
FolderQuery == "a"

\* the loop of lines 543-569 from file i on, up to the next file.text():
\* the index of that file, past the end when every file left is skipped
RECURSIVE nextRead(_, _)
nextRead(folder, i) ==
  IF i > Len(folder) THEN i
  ELSE IF folder[i].kind \in {"other", "hidden"} THEN nextRead(folder, i + 1)
  ELSE i

\* the invocation, run on from file i with its loadedFilesArray, up to its
\* next await or to its end
resumed(selection, i, loadedFilesArray) ==
  [files |-> selection.files, i |-> nextRead(selection.files, i),
   loadedFilesArray |-> loadedFilesArray,
   at |-> IF nextRead(selection.files, i) > Len(selection.files)
          THEN "done" ELSE "text"]

\* no invocation stands at await vectorStore.addFile: the promise of addFile
\* is resolved when it is awaited, so the invocation is resumed before the
\* next event or the next file read is handled
noneResuming ==
  \A k \in 1..Len(selections) : selections[k].at # "addFile"

\* handleFolderSelect(e) up to its first await
SelectFolder ==
  /\ noneResuming
  /\ Len(selections) < MaxSelections
  /\ \E folder \in Folders :
       selections' = Append(selections,
                            resumed([files |-> folder], 1, <<>>))
  /\ files' = <<>>
  /\ loadedFiles' = <<>>
  /\ UNCHANGED <<secVars, applied, ecoVars, clientVars, uiVars, reports>>
  /\ UNCHANGED <<searched, pureVars>>

\* handleFolderSelect: file.text() settles, and on a text addFile is called
ReadText ==
  \E k \in 1..Len(selections) :
    /\ noneResuming
    /\ selections[k].at = "text"
    /\ \E file \in {selections[k].files[selections[k].i]} :
         IF file.kind = "unreadable"
         THEN /\ selections' =
                   [selections EXCEPT
                      ![k] = resumed(@, @.i + 1, @.loadedFilesArray)]
              /\ loadedFiles' =
                   IF selections'[k].at = "done"
                   THEN selections[k].loadedFilesArray
                   ELSE loadedFiles
              /\ files' = files
         ELSE /\ files' = Append(files,
                                 [path |-> file.path, content |-> file.content,
                                  embedding |->
                                    generateTextEmbedding(file.content,
                                                          FolderRun)])
              /\ selections' = [selections EXCEPT ![k].at = "addFile"]
              /\ loadedFiles' = loadedFiles
    /\ UNCHANGED <<secVars, applied, ecoVars, clientVars, uiVars, reports>>
    /\ UNCHANGED <<searched, pureVars>>

\* handleFolderSelect: after await vectorStore.addFile, up to the next await
\* or to setLoadedFiles(loadedFilesArray)
FileAdded ==
  \E k \in 1..Len(selections) :
    /\ selections[k].at = "addFile"
    /\ \E file \in {selections[k].files[selections[k].i]} :
         selections' =
           [selections EXCEPT
              ![k] = resumed(@, @.i + 1,
                             Append(@.loadedFilesArray,
                                    [path |-> file.path,
                                     content |-> file.content]))]
    /\ loadedFiles' = IF selections'[k].at = "done"
                      THEN selections'[k].loadedFilesArray
                      ELSE loadedFiles
    /\ UNCHANGED <<secVars, applied, ecoVars, clientVars, uiVars, reports>>
    /\ UNCHANGED <<storeVars, pureVars>>

\* handleSearch()
HandleSearch ==
  /\ noneResuming
  /\ loadedFiles # <<>>
  /\ searched' = [query |-> FolderQuery, random |-> FolderRun,
                  limit |-> defaultLimit,
                  returned |-> slice(ranked(files, FolderQuery, FolderRun),
                                     defaultLimit)]
  /\ UNCHANGED <<secVars, applied, ecoVars, clientVars, uiVars, reports>>
  /\ UNCHANGED <<files, pureVars, folderVars>>

InitFolder ==
  /\ Rested
  /\ ClientIdle
  /\ UiIdle
  /\ AuxIdle

NextFolder ==
  \/ SelectFolder
  \/ ReadText
  \/ FileAdded
  \/ HandleSearch

SpecFolder == InitFolder /\ [][NextFolder]_vars

(***************************************************************************)
(* calculateCosineSimilarity called on its own                             *)
(***************************************************************************)
\* the longest vector given to calculateCosineSimilarity
MaxLength == 2

\* 0, -3, 2^600 and 2^-600
Components ==
  {double(0), double(-3), rounded(0, <<1>>, 600, FALSE),
   rounded(0, <<1>>, -600, FALSE)}

Vectors == UNION {[1..n -> Components] : n \in 0..MaxLength}

\* this.calculateCosineSimilarity(vec1, vec2)
Similarity ==
  /\ returnValue = [none |-> TRUE]
  /\ returnValue' = calculateCosineSimilarity(args.vec1, args.vec2)
  /\ UNCHANGED <<secVars, applied, ecoVars, clientVars, uiVars, reports, folderVars>>
  /\ UNCHANGED <<storeVars, args>>

InitCosine ==
  /\ Rested
  /\ ClientIdle
  /\ UiIdle
  /\ reports = <<>>
  /\ StoreIdle
  /\ FolderIdle
  /\ \E vec1 \in Vectors, vec2 \in Vectors :
       args = [vec1 |-> vec1, vec2 |-> vec2]
  /\ returnValue = [none |-> TRUE]

NextCosine == Similarity

SpecCosine == InitCosine /\ [][NextCosine]_vars

(***************************************************************************)
(* generateTextEmbedding called on its own                                 *)
(***************************************************************************)
\* aiClient.generateTextEmbedding(text)
GenerateEmbedding ==
  /\ returnValue = [none |-> TRUE]
  /\ returnValue' = generateTextEmbedding(args.text, args.random)
  /\ UNCHANGED <<secVars, applied, ecoVars, clientVars, uiVars, reports, folderVars>>
  /\ UNCHANGED <<storeVars, args>>

InitEmbedding ==
  /\ Rested
  /\ ClientIdle
  /\ UiIdle
  /\ reports = <<>>
  /\ StoreIdle
  /\ FolderIdle
  /\ \E text \in EmbedTexts, random \in RandomRuns :
       args = [text |-> text, random |-> random]
  /\ returnValue = [none |-> TRUE]

NextEmbedding == GenerateEmbedding

SpecEmbedding == InitEmbedding /\ [][NextEmbedding]_vars

(***************************************************************************)
(* One text given to localSecurityAnalysis and to localEcoAnalysis         *)
(***************************************************************************)
\* the fragments both engines look for when they detect the language
LanguageFrags ==
  {"fn main() { use std::io;", "public static void main(String[] args)",
   "def run(): import os", "const x = 1;", "#include <stdio.h>"}

LanguageInputs == SubsetsUpTo(LanguageFrags, MaxFrags)

InitBoth ==
  /\ request \in LanguageInputs
  /\ code = request
  /\ pc = 0
  /\ language = "unknown"
  /\ confidenceLevel = 6
  /\ riskLevel = "Low"
  /\ threats = <<>>
  /\ recommendations = <<>>
  /\ applied = {}
  /\ ecoPc = 0
  /\ ecoLanguage = "unknown"
  /\ baseScore = 70
  /\ ecoScore = 0
  /\ issues = <<>>
  /\ suggestions = <<>>
  /\ ClientIdle
  /\ UiIdle
  /\ AuxIdle

NextBoth ==
  \/ DetectLanguage
  \/ Detect
  \/ Recommend
  \/ Return
  \/ EcoDetectLanguage
  \/ EcoRule
  \/ EcoScore
  \/ EcoReturn

SpecBoth == InitBoth /\ [][NextBoth]_vars

(***************************************************************************)
(* localEcoAnalysis: the repeated blocks, line by line                     *)
(***************************************************************************)
\* the most lines of a text given to the scan, when the lines vary
MaxLines == 5

\* the most lines of a text that repeats one line
MaxRepeated == 9

\* the lines the texts are made of, character by character:
\* "a", "b", " a ", "a//b", "a/*b*/", "#b"
RawLines ==
  {<<"a">>, <<"b">>, <<" ", "a", " ">>, <<"a", "/", "/", "b">>,
   <<"a", "/", "*", "b", "*", "/">>, <<"#", "b">>}

LineTexts ==
  UNION {[1..n -> RawLines] : n \in 0..MaxLines}
    \cup {[i \in 1..n |-> <<"a">>] : n \in (MaxLines + 1)..MaxRepeated}

\* line.trim(), from the start and from the end
RECURSIVE trimStart(_)
trimStart(line) ==
  IF line # <<>> /\ Head(line) = " " THEN trimStart(Tail(line)) ELSE line

RECURSIVE trimEnd(_)
trimEnd(line) ==
  IF line # <<>> /\ line[Len(line)] = " "
  THEN trimEnd(SubSeq(line, 1, Len(line) - 1))
  ELSE line

\* where the first "*/" at or after k starts, 0 when there is none
RECURSIVE closing(_, _)
closing(line, k) ==
  IF k + 1 > Len(line) THEN 0
  ELSE IF line[k] = "*" /\ line[k + 1] = "/" THEN k
  ELSE closing(line, k + 1)

\* .replace(/\/\/.*|\/\*[\s\S]*?\*\/|#.*/g, ''), from character i on
RECURSIVE uncommented(_, _)
uncommented(line, i) ==
  IF i > Len(line) THEN <<>>
  ELSE IF line[i] = "#" THEN <<>>
  ELSE IF line[i] = "/" /\ i < Len(line) /\ line[i + 1] = "/" THEN <<>>
  ELSE IF line[i] = "/" /\ i < Len(line) /\ line[i + 1] = "*"
          /\ closing(line, i + 2) > 0
  THEN uncommented(line, closing(line, i + 2) + 2)
  ELSE <<line[i]>> \o uncommented(line, i + 1)

\* const cleanedLines, from line i on
RECURSIVE cleanedFrom(_, _)
cleanedFrom(lines, i) ==
  IF i > Len(lines) THEN <<>>
  ELSE IF uncommented(trimEnd(trimStart(lines[i])), 1) = <<>>
  THEN cleanedFrom(lines, i + 1)
  ELSE <<uncommented(trimEnd(trimStart(lines[i])), 1)>>
         \o cleanedFrom(lines, i + 1)

cleanedLines(lines) == cleanedFrom(lines, 1)

\* cleanedLines.slice(i, i + 3).join('\n'), for i counted from 1
block(cleaned, i) == SubSeq(cleaned, i, i + 2)

\* the scan that counts each repeated block once, however often it repeats
RECURSIVE repeatedBlocks(_, _, _, _)
repeatedBlocks(cleaned, i, lineSet, repeatedLines) ==
  IF i > Len(cleaned) - 2 THEN Cardinality(repeatedLines)
  ELSE IF block(cleaned, i) \in lineSet
  THEN repeatedBlocks(cleaned, i + 1, lineSet,
                      repeatedLines \cup {block(cleaned, i)})
  ELSE repeatedBlocks(cleaned, i + 1, lineSet \cup {block(cleaned, i)},
                      repeatedLines)

scanDistinct(cleaned, i, lineSet, redundancyCount) ==
  repeatedBlocks(cleaned, i, lineSet, {})

\* the loop of lines 1210-1218 from round i on
RECURSIVE scan(_, _, _, _)
scan(cleaned, i, lineSet, redundancyCount) ==
  IF i > Len(cleaned) - 2 THEN redundancyCount
  ELSE IF block(cleaned, i) \in lineSet
  THEN scan(cleaned, i + 1, lineSet, redundancyCount + 1)
  ELSE scan(cleaned, i + 1, lineSet \cup {block(cleaned, i)},
            redundancyCount)

\* let redundancyCount after the loop
redundancyCount(lines) == scan(cleanedLines(lines), 1, {}, 0)

\* lines 1198-1228 and the entry of details: what the redundancy check adds
\* to the issues, to the suggestions and to the base score
redundancyCheck(lines) ==
  IF redundancyCount(lines) > 0
  THEN [issues |-> <<"Detected " \o ToString(redundancyCount(lines))
                      \o " blocks of potentially redundant code">>,
        suggestions |->
          <<"Extract repeated code blocks into reusable functions or components">>,
        delta |-> 0 - min(15, redundancyCount(lines) * 3),
        redundancies |-> redundancyCount(lines)]
  ELSE [issues |-> <<>>, suggestions |-> <<>>, delta |-> 0,
        redundancies |-> redundancyCount(lines)]

\* localEcoAnalysis up to line 1228 on the lines of a text
CheckRedundancy ==
  /\ returnValue = [none |-> TRUE]
  /\ returnValue' = redundancyCheck(args.lines)
  /\ UNCHANGED <<secVars, applied, ecoVars, clientVars, uiVars, reports, folderVars>>
  /\ UNCHANGED <<storeVars, args>>

InitRedundancy ==
  /\ Rested
  /\ ClientIdle
  /\ UiIdle
  /\ reports = <<>>
  /\ StoreIdle
  /\ FolderIdle
  /\ \E lines \in LineTexts : args = [lines |-> lines]
  /\ returnValue = [none |-> TRUE]

NextRedundancy == CheckRedundancy

SpecRedundancy == InitRedundancy /\ [][NextRedundancy]_vars

(***************************************************************************)
(* localEcoAnalysis: the nested loops, line by line                        *)
(***************************************************************************)
\* the most lines of a text given to the count of nested loops
MaxLoopLines == 6

\* the lines the texts are made of, character by character:
\* "for (a) {", "while (b) {", "if (c) {", "} else {",
\* "}", "x();", "for (a) { x(); }"
LoopLines ==
  {<<"f", "o", "r", " ", "(", "a", ")", " ", "{">>,
   <<"w", "h", "i", "l", "e", " ", "(", "b", ")", " ", "{">>,
   <<"i", "f", " ", "(", "c", ")", " ", "{">>,
   <<"}", " ", "e", "l", "s", "e", " ", "{">>,
   <<"}">>,
   <<"x", "(", ")", ";">>,
   <<"f", "o", "r", " ", "(", "a", ")", " ", "{", " ", "x", "(", ")", ";", " ", "}">>}

LoopTexts == UNION {[1..n -> LoopLines] : n \in 0..MaxLoopLines}

\* the characters of line from i on start with word
wordAt(line, i, word) ==
  /\ i + Len(word) - 1 <= Len(line)
  /\ SubSeq(line, i, i + Len(word) - 1) = word

\* \s*, from character k on: where the white space ends
RECURSIVE spaced(_, _)
spaced(line, k) ==
  IF k <= Len(line) /\ line[k] = " " THEN spaced(line, k + 1) ELSE k

\* word\s*\( at character i
headAt(line, i, word) ==
  /\ wordAt(line, i, word)
  /\ spaced(line, i + Len(word)) <= Len(line)
  /\ line[spaced(line, i + Len(word))] = "("

\* line.match(/for\s*\(|while\s*\(|\{\s*$/)
startsBlock(line) ==
  \/ \E i \in 1..Len(line) :
       headAt(line, i, <<"f", "o", "r">>)
         \/ headAt(line, i, <<"w", "h", "i", "l", "e">>)
  \/ trimEnd(line) # <<>> /\ trimEnd(line)[Len(trimEnd(line))] = "{"

\* line.includes('}')
closesBlock(line) == \E i \in 1..Len(line) : line[i] = "}"

\* block.match(/for|while/)
namesLoop(start) ==
  \E i \in 1..Len(start) :
    wordAt(start, i, <<"f", "o", "r">>)
      \/ wordAt(start, i, <<"w", "h", "i", "l", "e">>)

\* blockStarts.pop(), which leaves an empty array empty
popped(blockStarts) ==
  IF blockStarts = <<>> THEN <<>>
  ELSE SubSeq(blockStarts, 1, Len(blockStarts) - 1)

\* blockStarts after the line: lines 1327-1331
blockStartsAfter(blockStarts, line) ==
  IF startsBlock(line) THEN Append(blockStarts, line)
  ELSE IF closesBlock(line) THEN popped(blockStarts)
  ELSE blockStarts

\* blockStarts.filter((block) => block.match(/for|while/)).length
loopBlocks(blockStarts) ==
  Cardinality({k \in 1..Len(blockStarts) : namesLoop(blockStarts[k])})

\* lines 1324-1336: the loop over the lines, from line i on
RECURSIVE nestedFrom(_, _, _, _)
nestedFrom(lines, i, blockStarts, counted) ==
  IF i > Len(lines) THEN counted
  ELSE nestedFrom(lines, i + 1, blockStartsAfter(blockStarts, lines[i]),
                  IF loopBlocks(blockStartsAfter(blockStarts, lines[i])) > 1
                  THEN counted + 1 ELSE counted)

nestedLoopCount(lines) == nestedFrom(lines, 1, <<>>, 0)

\* lines 1323-1345 and lines 1598-1600: what the nested loops add to the
\* issues and to the suggestions, and what they take from the score
nestedLoopCheck(lines) ==
  IF nestedLoopCount(lines) > 0
  THEN [issues |-> <<ToString(nestedLoopCount(lines))
                      \o " nested loops detected (potential O(n²) or worse time complexity)">>,
        suggestions |->
          <<"Consider refactoring nested loops to reduce time complexity">>,
        delta |-> 0 - min(15, nestedLoopCount(lines) * 5),
        nestedLoopCount |-> nestedLoopCount(lines)]
  ELSE [issues |-> <<>>, suggestions |-> <<>>, delta |-> 0,
        nestedLoopCount |-> 0]

\* localEcoAnalysis from line 1323 to line 1345 on the lines of a text
CheckNestedLoops ==
  /\ returnValue = [none |-> TRUE]
  /\ returnValue' = nestedLoopCheck(args.lines)
  /\ UNCHANGED <<secVars, applied, ecoVars, clientVars, uiVars, reports, folderVars>>
  /\ UNCHANGED <<storeVars, args>>

InitNestedLoops ==
  /\ Rested
  /\ ClientIdle
  /\ UiIdle
  /\ reports = <<>>
  /\ StoreIdle
  /\ FolderIdle
  /\ \E lines \in LoopTexts : args = [lines |-> lines]
  /\ returnValue = [none |-> TRUE]

NextNestedLoops == CheckNestedLoops

SpecNestedLoops == InitNestedLoops /\ [][NextNestedLoops]_vars

(***************************************************************************)
(* Properties of localSecurityAnalysis                                     *)
(***************************************************************************)
SqlThreat == "Potential SQL injection vulnerability detected"
SqlRecommendation ==
  "Use parameterized queries or an ORM instead of string concatenation"
NeutralThreat == "No obvious security vulnerabilities detected"
GenericRecommendation ==
  "Follow security best practices for your framework/language"

\* C1: within one call of localSecurityAnalysis the running risk level never
\* decreases from one check to the next (so the level returned is the
\* highest level reached during the call).
C1_RiskNeverDecreases == [][Rank(riskLevel') >= Rank(riskLevel)]_vars

\* C2: whatever order the checks are applied in, the final risk level is the
\* one the order of the code yields.
C2_OrderIndependent ==
  allApplied => riskLevel = localSecurityAnalysis(request).riskLevel

\* C3: whenever the command-injection check fires, the returned risk level
\* is Critical.
C3_CommandInjectionCritical ==
  (returned /\ commandInjection(request)) => riskLevel = "Critical"

\* the case of C4: SQL injection fires and none of XSS, command injection
\* and unsafe Rust does
sqlOnly ==
  /\ sqlInjection(request)
  /\ ~xss(request)
  /\ ~commandInjection(request)
  /\ ~unsafeRust(request, language)

\* C4: when the SQL-injection check fires and none of the XSS,
\* command-injection and unsafe-Rust checks does, the returned risk level is
\* exactly High, the threats hold the SQL-injection entry and the
\* recommendations hold the parameterized-queries entry.
C4_SqlInjectionHigh ==
  (returned /\ sqlOnly) =>
    /\ riskLevel = "High"
    /\ contains(threats, SqlThreat)
    /\ contains(recommendations, SqlRecommendation)

\* SQL injection reported as High after earlier checks had already raised
\* the level and later checks matched as well
C4_Witness ==
  /\ returned /\ sqlOnly
  /\ riskLevel = "High"
  /\ Len(threats) >= 3
  /\ threats[Len(threats)] # SqlThreat

\* no check of the function matches the text
noDetectorFires ==
  \A i \in 1..Len(Detectors) : ~fires(Detectors[i], request, language)

\* C5: when no check matches, the report is Low with exactly the neutral
\* threat and exactly the generic recommendation; and for every input both
\* lists are non-empty.
C5_NeutralReport ==
  returned =>
    /\ Len(threats) > 0
    /\ Len(recommendations) > 0
    /\ noDetectorFires =>
         /\ riskLevel = "Low"
         /\ threats = <<NeutralThreat>>
         /\ recommendations = <<GenericRecommendation>>

\* a non-empty text that no check matches has been analysed
C5_Witness ==
  /\ returned /\ noDetectorFires
  /\ Cardinality(request) = MaxFrags
  /\ threats = <<NeutralThreat>>

(***************************************************************************)
(* Properties of localEcoAnalysis                                          *)
(***************************************************************************)
\* C6: for every input the ecoScore localEcoAnalysis returns is an integer
\* between 35 and 95, the bonus for code without issues, added after the
\* clamp, and the three bonuses of the rules together included; the function
\* computed in one piece returns the same score.
C6_EcoScoreInRange ==
  ecoReturned =>
    /\ ecoScore \in 35..95
    /\ ecoScore = localEcoAnalysis(code).ecoScore

\* the three bonuses apply together to code without issues, which also
\* receives the bonus added after the clamp
C6_Witness ==
  /\ ecoReturned
  /\ ecoFires("aiCaching", code, ecoLanguage)
  /\ ecoFires("aiLocalModel", code, ecoLanguage)
  /\ ecoFires("rustBorrow", code, ecoLanguage)
  /\ issues = <<"No obvious efficiency issues detected">>
  /\ ecoScore = 93

(***************************************************************************)
(* Properties of the client                                                *)
(***************************************************************************)
\* no key is configured: apiKey is null or the empty string
noApiKey == apiKey = null \/ apiKey = string(<<>>)

\* C7: a call of generateSecurityReport, optimizeEcoImpact or explainCode
\* made while no API key is configured issues no remote request and turns at
\* once to the local engine of the method, and a method that turns to its
\* local engine returns exactly the result of that engine on the whole input
\* it was called with.
C7_NoKeyNoRequest ==
  [][/\ (callPc = "idle" /\ callPc' # "idle" /\ noApiKey) =>
          /\ callPc' = "local"
          /\ fetched' = <<>>
     /\ (callPc = "local" /\ callPc' # "local") =>
          /\ callPc' = "done"
          /\ call' = call
          /\ fetched' = fetched
          /\ path' = "local"
          /\ result' = localResult(call.method, call.text)]_vars

\* explainCode has returned without a key, on a text longer than the prompt
\* of any method would hold
C7_Witness ==
  /\ callPc = "done"
  /\ noApiKey
  /\ fetched = <<>>
  /\ call.method = "explainCode"
  /\ length(call.text) > 10000
  /\ result = localCodeExplanation(call.text)

\* the remote attempt of the call failed: fetch rejected, the status of the
\* response is not 2xx, or its body does not parse into a report
remoteFailed ==
  \/ response.kind = "rejected"
  \/ /\ response.kind = "response"
     /\ \/ response.status \notin 200..299
        \/ response.body = notJson
        \/ extractThrows(response.body)

\* C8: when generateSecurityReport or optimizeEcoImpact, called with a key,
\* meets a transport error, a response whose status is not 2xx or a response
\* that does not parse into a report, it returns the result of the local
\* engine for the same input and discards what the remote service sent.
C8_FallbackOnFailure ==
  (/\ callPc = "done"
   /\ call.method \in {"generateSecurityReport", "optimizeEcoImpact"}
   /\ remoteFailed) =>
    /\ path = "local"
    /\ result = localResult(call.method, call.text)

\* the riskLevel the remote service gave for the report being returned
givenRiskLevel == parsedResult(response.body).riskLevel

\* a response to generateSecurityReport has been parsed as JSON
securityParsed ==
  /\ callPc = "done"
  /\ call.method = "generateSecurityReport"
  /\ response.kind = "response"
  /\ response.body # notJson
  /\ ~extractThrows(response.body)

\* a response to optimizeEcoImpact has been parsed as JSON
ecoParsed ==
  /\ callPc = "done"
  /\ call.method = "optimizeEcoImpact"
  /\ response.kind = "response"
  /\ response.body # notJson
  /\ ~extractThrows(response.body)

\* the four risk levels as the strings a response gives
CanonicalLevels ==
  {string(<<"L", "o", "w">>), string(<<"M", "e", "d", "i", "u", "m">>),
   string(<<"H", "i", "g", "h">>),
   string(<<"C", "r", "i", "t", "i", "c", "a", "l">>)}

\* the name of a canonical level
levelName(v) ==
  CASE v = string(<<"L", "o", "w">>) -> "Low"
    [] v = string(<<"M", "e", "d", "i", "u", "m">>) -> "Medium"
    [] v = string(<<"H", "i", "g", "h">>) -> "High"
    [] v = string(<<"C", "r", "i", "t", "i", "c", "a", "l">>) -> "Critical"

\* the list fields of the returned report are the arrays given, or empty
listsDefaulted ==
  /\ (securityParsed /\ path = "remote") =>
       \A field \in {"threats", "recommendations"} :
          LET given == parsedResult(response.body)[field]
          IN  result[field] = IF given.type = "array" THEN given.items
                              ELSE <<>>
  /\ ecoParsed =>
       /\ \A field \in {"issues", "suggestions"} :
             LET given == parsedResult(response.body)[field]
             IN  result[field] = IF given.type = "array" THEN given.items
                                 ELSE <<>>
       /\ parsedResult(response.body).ecoScore = undefined =>
            result.ecoScore = 50

\* the marker of a level found first, in the order low, med, high, crit, in
\* the lower-cased text given
markedLevel(chars) ==
  LET lower == toLowerCase(chars)
  IN  IF charsInclude(lower, <<"l", "o", "w">>) THEN "Low"
      ELSE IF charsInclude(lower, <<"m", "e", "d">>) THEN "Medium"
      ELSE IF charsInclude(lower, <<"h", "i", "g", "h">>) THEN "High"
      ELSE IF charsInclude(lower, <<"c", "r", "i", "t">>) THEN "Critical"
      ELSE "none"

\* the level a riskLevel given is recognised as: that of the first marker it
\* holds when it is a string, none otherwise
recognisedLevel(v) ==
  IF v.type = "string" THEN markedLevel(v.chars) ELSE "none"

\* C9 as stated: when a response parses as JSON, the report returned has
\* riskLevel Medium when the riskLevel given is missing or unrecognised, the
\* level given when it is one of the four levels, ecoScore 50 when it is
\* missing, and empty lists for list fields that are not arrays.
C9_DefaultsAsStated ==
  /\ listsDefaulted
  /\ securityParsed =>
       /\ result.riskLevel = IF recognisedLevel(givenRiskLevel) = "none"
                             THEN "Medium"
                             ELSE recognisedLevel(givenRiskLevel)
       /\ givenRiskLevel \in CanonicalLevels =>
            result.riskLevel = levelName(givenRiskLevel)

\* C9, amended: when a response parses as JSON, list fields that are not
\* arrays become empty lists and a missing ecoScore becomes 50; a riskLevel
\* that is missing, null or a string holding none of the markers low, med,
\* high, crit (in any case) becomes Medium; a string holding a marker becomes
\* the level of the first marker in that order, so that each of the four
\* levels is returned unchanged; and a riskLevel that is neither missing, null
\* nor a string makes the call return the report of the local engine instead.
C9_DefaultsAmended ==
  /\ listsDefaulted
  /\ securityParsed =>
       IF givenRiskLevel.type \in {"undefined", "null", "string"}
       THEN /\ path = "remote"
            /\ result.riskLevel = IF recognisedLevel(givenRiskLevel) = "none"
                                  THEN "Medium"
                                  ELSE recognisedLevel(givenRiskLevel)
            /\ givenRiskLevel \in CanonicalLevels =>
                 result.riskLevel = levelName(givenRiskLevel)
       ELSE /\ path = "local"
            /\ result = localSecurityAnalysis(call.text)

\* a report has been returned whose riskLevel was given in capitals, with a
\* list field that was not an array
C9_Witness ==
  /\ securityParsed
  /\ givenRiskLevel = string(<<"C", "R", "I", "T", "I", "C", "A", "L">>)
  /\ parsedResult(response.body).threats.type = "string"
  /\ result.riskLevel = "Critical"
  /\ result.threats = <<>>

\* C10: every report returned to the caller, by the remote path as well as by
\* the local one, has a riskLevel among the four levels and a
\* confidenceLevel between 0 and 1 (generateSecurityReport) or an ecoScore
\* between 35 and 95 (optimizeEcoImpact).
C10_ReportConstraints ==
  callPc = "done" =>
    /\ call.method = "generateSecurityReport" =>
         /\ result.riskLevel \in {"Low", "Medium", "High", "Critical"}
         /\ result.confidenceLevel \in 0..10
    /\ call.method = "optimizeEcoImpact" => result.ecoScore \in 35..95

(***************************************************************************)
(* Properties of the views                                                 *)
(***************************************************************************)
\* C11: over any sequence of actions in the three views, an analysis posts
\* code to the remote service only if AI-enhanced analysis was switched on,
\* with a key entered, in the view that started it, when it started.
C11_RemoteOnlyWhenEnhanced ==
  fetched # <<>> => analysis.enhanced

(***************************************************************************)
(* Properties of repeated local analyses                                   *)
(***************************************************************************)
\* C12: when a local engine returns a report for a text it has already
\* analysed, the report equals the one it returned the first time, whatever
\* texts either engine analysed in between.
C12_SameInputSameReport ==
  (engineReturned /\ <<call.method, call.text>> \in DOMAIN reports)
    => reports[<<call.method, call.text>>] = returnedReport

\* a second run on a text that found something, after reports for other
\* texts were returned by the same engine
C12_Witness ==
  /\ engineReturned
  /\ <<call.method, call.text>> \in DOMAIN reports
  /\ call.text # {}
  /\ \E other \in RepeatInputs \ {call.text} :
       /\ <<call.method, other>> \in DOMAIN reports
       /\ reports[<<call.method, other>>] # returnedReport

(***************************************************************************)
(* Properties of the confidence level                                      *)
(***************************************************************************)
\* C13: once localSecurityAnalysis has computed it, confidenceLevel is 0.6,
\* plus 0.1 when the detected language is not unknown, minus 0.2 when the
\* text is shorter than 100 characters, plus 0.1 when it is longer than 1000
\* characters (in tenths: 6, +1, -2, +1), and so lies between 0 and 1.
C13_ConfidenceHeuristic ==
  pc >= 1 =>
    /\ confidenceLevel =
         6 + (IF language # "unknown" THEN 1 ELSE 0)
           - (IF length(request) < 100 THEN 2 ELSE 0)
           + (IF length(request) > 1000 THEN 1 ELSE 0)
    /\ confidenceLevel \in 0..10

\* the report for a text of more than 1000 characters in a detected language
C13_Witness ==
  /\ returned
  /\ language # "unknown"
  /\ length(request) > 1000
  /\ confidenceLevel = 8

(***************************************************************************)
(* Properties of the large-file check of localEcoAnalysis                  *)
(***************************************************************************)
LargeFileIssue == "Extremely large file detected (over 500 lines)"

\* no rule of localEcoAnalysis applies to the text
quiet(text) ==
  \A i \in 1..Len(EcoRules) :
    ~ecoFires(EcoRules[i], text, ecoDetectLanguage(text))

\* which of the two length penalties apply to the text
lengthBracket(text) ==
  IF length(text) > 10000 THEN 2 ELSE IF length(text) > 5000 THEN 1 ELSE 0

\* the texts of at most 500 lines to which no rule applies
ShortQuietInputs == {t \in EcoInputs : lineCount(t) <= 500 /\ quiet(t)}

\* the texts of at most 500 lines a text of more than 500 lines is compared
\* with: same language, no rule applies, same length penalties
comparable(text) ==
  {t \in ShortQuietInputs :
     /\ ecoDetectLanguage(t) = ecoDetectLanguage(text)
     /\ lengthBracket(t) = lengthBracket(text)}

\* C14: when localEcoAnalysis returns for a text of more than 500 lines to
\* which no rule applies, its issues hold the large-file entry, and its
\* ecoScore is strictly lower than the ecoScore of every text of at most 500
\* lines in the same language to which no rule applies and which falls under
\* the same length penalties.
C14_LargeFileScoresLower ==
  (ecoReturned /\ lineCount(code) > 500 /\ quiet(code)) =>
    /\ \E i \in 1..Len(issues) : issues[i] = LargeFileIssue
    /\ \A t \in comparable(code) : ecoScore < localEcoAnalysis(t).ecoScore

\* a text of more than 500 lines and more than 5000 characters in a detected
\* language, with a shorter text to compare it with
C14_Witness ==
  /\ ecoReturned
  /\ lineCount(code) > 500
  /\ quiet(code)
  /\ ecoLanguage # "unknown"
  /\ lengthBracket(code) = 1
  /\ comparable(code) # {}

(***************************************************************************)
(* Properties of VectorStore.search                                        *)
(***************************************************************************)
\* the scores of a list of results do not go up
nonIncreasing(results) ==
  \A i \in 1..(Len(results) - 1) :
    ~less(results[i].score, results[i + 1].score)

\* C15: search(query, k) returns at most min(k, number of stored files)
\* results, in non-increasing order of score, and an empty list on an empty
\* store.
C15_SearchBoundedAndOrdered ==
  "query" \in DOMAIN searched =>
    /\ Len(searched.returned) <= min(searched.limit, Len(files))
    /\ nonIncreasing(searched.returned)
    /\ \A i \in 1..Len(searched.returned) :
         isFinite(searched.returned[i].score)
    /\ files = <<>> => searched.returned = <<>>

\* a search over two files with different scores returned both
C15_Witness ==
  /\ "query" \in DOMAIN searched
  /\ Len(files) = 2
  /\ searched.limit = defaultLimit
  /\ Len(searched.returned) = 2
  /\ less(searched.returned[2].score, searched.returned[1].score)
  /\ searched.returned[1].content = files[2].content
  /\ searched.returned[2].content = files[1].content
  /\ files[1].content # files[2].content

\* a search over a store that was emptied returned nothing
C15_EmptyStore ==
  /\ "query" \in DOMAIN searched
  /\ files = <<>>
  /\ searched.returned = <<>>

\* a search over two documents of distinct text, for the text of one of them,
\* that returned them both
exactMatchSearched ==
  /\ "query" \in DOMAIN searched
  /\ Len(files) = 2
  /\ files[1].content # files[2].content
  /\ searched.query \in {files[1].content, files[2].content}
  /\ Len(searched.returned) = 2

\* C16: after two documents with distinct text are added, a search whose
\* query text is identical to one of them returns that document first, with a
\* score strictly greater than the other document's, for every outcome of the
\* random noise dimensions.
C16_ExactMatchRanksFirst ==
  exactMatchSearched =>
    /\ searched.returned[1].content = searched.query
    /\ less(searched.returned[2].score, searched.returned[1].score)

(***************************************************************************)
(* Properties of calculateCosineSimilarity                                 *)
(***************************************************************************)
\* every component of v is 0
zeroVector(v) == \A i \in 1..Len(v) : isZero(v[i])

\* -1 <= x <= 1
withinUnit(x) ==
  isFinite(x) /\ ~less(x, double(-1)) /\ ~less(double(1), x)

\* what was returned for (vec1, vec2) is what is returned for (vec2, vec1)
CosineSymmetric ==
  returnValue # [none |-> TRUE] =>
    returnValue = calculateCosineSimilarity(args.vec2, args.vec1)

\* C17: calculateCosineSimilarity is symmetric, returns 1 for sim(a, a) when
\* a is non-zero, returns 0 (not NaN or Infinity) when either vector has zero
\* magnitude or the lengths differ, and always returns a value in [-1, 1].
C17_CosineContract ==
  returnValue # [none |-> TRUE] =>
    /\ returnValue = calculateCosineSimilarity(args.vec2, args.vec1)
    /\ (args.vec1 = args.vec2 /\ ~zeroVector(args.vec1)) =>
         same(returnValue, double(1))
    /\ (Len(args.vec1) # Len(args.vec2) \/ zeroVector(args.vec1)
          \/ zeroVector(args.vec2)) =>
         same(returnValue, double(0))
    /\ withinUnit(returnValue)

(***************************************************************************)
(* Properties of generateTextEmbedding                                     *)
(***************************************************************************)
\* 2^-30
Tolerance == over(double(1), double(2 ^ 30))

\* the L2 norm of v
norm(v) == sqrt(sumOfSquares(v, 1, double(0)))

\* |x - 1| <= Tolerance
nearOne(x) ==
  /\ isFinite(x)
  /\ ~less(x, minus(double(1), Tolerance))
  /\ ~less(plus(double(1), Tolerance), x)

\* C18: for every input text, the empty string and all-whitespace text
\* included, generateTextEmbedding returns exactly 32 finite components whose
\* L2 norm is 1 within floating-point tolerance; the magnitude before
\* normalisation is never zero, so no component is NaN or Infinity.
C18_UnitEmbedding ==
  returnValue # [none |-> TRUE] =>
    /\ Len(returnValue) = 32
    /\ \A i \in 1..Len(returnValue) : isFinite(returnValue[i])
    /\ nearOne(norm(returnValue))
    /\ ~isZero(norm(features(args.text, args.random)))
    /\ isFinite(norm(features(args.text, args.random)))

\* an embedding was returned for the empty string, and one for blanks only
C18_Witness ==
  /\ returnValue # [none |-> TRUE]
  /\ args.text \in {"", "  "}
  /\ args.random = [i \in 1..11 |-> over(double(1), double(2))]
  /\ Len(returnValue) = 32
  /\ nearOne(norm(returnValue))

(***************************************************************************)
(* Properties of the language detection                                    *)
(***************************************************************************)
\* the language family a tag of either engine denotes
family(tag) ==
  CASE tag \in {"rust", "Rust"} -> "rust"
    [] tag \in {"java", "Java"} -> "java"
    [] tag \in {"python", "Python"} -> "python"
    [] tag \in {"javascript", "JavaScript/TypeScript"} -> "javascript"
    [] tag \in {"c/c++", "C/C++"} -> "c/c++"
    [] OTHER -> "unknown"

\* C19: for every input, the language localSecurityAnalysis detects and the
\* language localEcoAnalysis detects and reports in details.language denote
\* the same language family.
C19_OneLanguagePerInput ==
  (returned /\ ecoReturned /\ request = code) =>
    family(language)
      = family(ecoDetails(code, ecoLanguage, Len(issues)).language)

\* the tags in the order of the detection
LanguageOrder == <<"rust", "java", "python", "javascript", "c/c++">>

\* the signature of each tag
signature(text, tag) ==
  CASE tag = "rust" ->
         /\ includes(text, "fn main")
         /\ \E s \in {"impl", "struct", "use std"} : includes(text, s)
    [] tag = "java" -> includes(text, "public static void main")
    [] tag = "python" ->
         /\ includes(text, "def ")
         /\ \E s \in {"import ", "class "} : includes(text, s)
    [] tag = "javascript" ->
         \E s \in {"console.log", "function(", "const ", "let "} :
           includes(text, s)
    [] tag = "c/c++" -> includes(text, "#include")

\* the places in LanguageOrder of the signatures the text satisfies
satisfied(text) ==
  {i \in 1..Len(LanguageOrder) : signature(text, LanguageOrder[i])}

\* C20: language detection in localSecurityAnalysis is first-match-wins over
\* the order rust, java, python, javascript, c/c++: a text satisfying several
\* signatures gets the tag of the earliest, a text satisfying none gets
\* unknown, and the tag is always one of these six.
C20_FirstMatchWins ==
  pc >= 1 =>
    /\ language \in {"rust", "java", "python", "javascript", "c/c++",
                     "unknown"}
    /\ satisfied(request) = {} => language = "unknown"
    /\ \A i \in satisfied(request) :
         (\A j \in satisfied(request) : i <= j) =>
           language = LanguageOrder[i]

\* a text with the signatures of Python and of JavaScript was tagged python
C20_Witness ==
  /\ returned
  /\ satisfied(request) = {3, 4}
  /\ language = "python"

(***************************************************************************)
(* Properties of single checks of localSecurityAnalysis                    *)
(***************************************************************************)
\* C21: for a text tagged javascript that contains eval( or new function(,
\* the returned riskLevel is at least High, whatever level earlier checks
\* had reached.
C21_JsEvalAtLeastHigh ==
  (returned /\ language = "javascript"
     /\ (includes(request, "eval(") \/ includes(request, "new function("))) =>
    Rank(riskLevel) >= Rank("High")

SensitiveThreat ==
  "Handling sensitive data without obvious encryption/protection"

\* the place of the sensitive-data check among the checks
SensitiveAt == CHOOSE i \in 1..Len(Detectors) : Detectors[i] = "sensitiveData"

\* the sensitive-data check takes the level from Low to High and from any
\* other level to Critical
SensitiveStep ==
  (pc = SensitiveAt /\ pc' = pc + 1
     /\ hasSensitiveData(request) /\ ~hasEncryption(request)) =>
    /\ riskLevel' = IF riskLevel = "Low" THEN "High" ELSE "Critical"
    /\ threats' = Append(threats, SensitiveThreat)

\* once the check has fired the level returned is High or Critical
SensitiveReturned ==
  (returned /\ hasSensitiveData(request) /\ ~hasEncryption(request)) =>
    Rank(riskLevel) >= Rank("High")

\* C22: when sensitive-data keywords are present without any encryption or
\* hash marker, the sensitive-data check sets the level to High if it was Low
\* and to Critical otherwise, and the riskLevel finally returned is at least
\* High whatever later checks fire.
C22_SensitiveDataAtLeastHigh == [][SensitiveStep]_vars /\ []SensitiveReturned

\* the sensitive-data check raised a level that was not Low to Critical, and
\* the SQL check after it set High
C22_Witness ==
  /\ returned
  /\ contains(threats, SensitiveThreat)
  /\ contains(threats, SqlThreat)
  /\ threats[1] # SensitiveThreat
  /\ riskLevel = "High"

\* a check that pushes no threat leaves the level as it is
QuietStep ==
  (pc \in 1..Len(Detectors) /\ pc' = pc + 1 /\ threats' = threats) =>
    riskLevel' = riskLevel

\* a report whose only threat is the neutral entry has the level Low
NeutralIsLow ==
  (returned /\ threats = <<NeutralThreat>>) => riskLevel = "Low"

\* C23: a check of localSecurityAnalysis that appends no threat leaves the
\* risk level unchanged; hence whenever the returned threats list is the
\* single neutral entry, riskLevel is Low.
C23_NoThreatNoRisk == [][QuietStep]_vars /\ []NeutralIsLow

(***************************************************************************)
(* Properties of the redundancy check of localEcoAnalysis                  *)
(***************************************************************************)
\* the places whose three lines stand at an earlier place as well
repeats(cleaned) ==
  {i \in 1..(Len(cleaned) - 2) :
     \E j \in 1..(i - 1) : SubSeq(cleaned, j, j + 2) = SubSeq(cleaned, i, i + 2)}

\* nine equal lines: six repeats, and the deduction stops at 15
C24_Capped ==
  /\ returnValue # [none |-> TRUE]
  /\ Len(args.lines) = 9
  /\ returnValue.redundancies = 6
  /\ returnValue.delta = -15

\* C24: the redundancy counter is the number of positions i in the sequence
\* of non-empty comment-stripped lines whose window of lines i..i+2 equals
\* the window at some earlier position; details.redundancies reports that
\* count; the deduction is min(15, 3 x count); fewer than 3 cleaned lines
\* give the count 0.
C24_RedundancyCount ==
  returnValue # [none |-> TRUE] =>
    /\ returnValue.redundancies
         = Cardinality(repeats(cleanedLines(args.lines)))
    /\ returnValue.delta
         = 0 - min(15, 3 * Cardinality(repeats(cleanedLines(args.lines))))
    /\ Len(cleanedLines(args.lines)) < 3 => returnValue.redundancies = 0

\* five lines that clean to the same line: the block is found again twice
C24_Witness ==
  /\ returnValue # [none |-> TRUE]
  /\ args.lines = <<<<"a">>, <<" ", "a", " ">>, <<"a", "/", "/", "b">>,
                    <<"a">>, <<"a">>>>
  /\ returnValue.redundancies = 2
  /\ returnValue.delta = -6

(***************************************************************************)
(* Properties of the score of localEcoAnalysis                             *)
(***************************************************************************)
\* the rules are done, the score is not computed yet
beforeScore == ecoPc = Len(EcoRules) + 1

\* the score is computed and clamped, the fallbacks are not applied yet
afterScore == ecoPc = Len(EcoRules) + 2

\* the deductions as counted from a base score, n issues, the number of
\* nested loops, the length and the number of lines
deducted(base, n, nested, size, lines) ==
  LET s1 == base - min(20, 5 * n)
      s2 == IF nested > 0 THEN s1 - min(15, 5 * nested) ELSE s1
      s3 == IF size > 5000 THEN s2 - 3 ELSE s2
      s4 == IF size > 10000 THEN s3 - 5 ELSE s3
  IN  IF lines > 500 THEN s4 - 5 ELSE s4

\* the issues pushed before the size checks
issuesOfRules ==
  IF afterScore /\ contains(issues, LargeFileIssue)
  THEN Len(issues) - 1 ELSE Len(issues)

\* C25: the score before clamping is the rule-adjusted base score minus
\* min(20, 5 x n), n the number of issues appended before the size checks
\* (the nested-loop issue included, the large-file issue excluded), minus
\* min(15, 5 x nestedLoopCount) when nestedLoopCount > 0, minus 3 if
\* length > 5000, minus a further 5 if length > 10000, minus 5 if the line
\* count is above 500.
C25_ScoreBeforeClamp ==
  /\ beforeScore =>
       unclamped(ecoRunning, code)
         = deducted(baseScore, issuesOfRules, count(code, "nestedLoopCount"),
                    length(code), lineCount(code))
  /\ afterScore =>
       ecoScore
         = clamp(deducted(baseScore, issuesOfRules,
                          count(code, "nestedLoopCount"), length(code),
                          lineCount(code)))

\* a score with every deduction: an issue, nested loops, more than 10000
\* characters and more than 500 lines, above the lower end of the clamp
C25_Witness ==
  /\ afterScore
  /\ count(code, "nestedLoopCount") > 0
  /\ length(code) > 10000
  /\ lineCount(code) > 500
  /\ issuesOfRules >= 1
  /\ ecoScore > 35
  /\ ecoScore = baseScore - 5 * issuesOfRules
                  - min(15, 5 * count(code, "nestedLoopCount")) - 13

NeutralIssue == "No obvious efficiency issues detected"

\* the step after the clamp: the neutral entry and the bonus of 5 come
\* together, exactly when no rule has pushed an issue
FallbackStep ==
  (afterScore /\ ecoPc' = ecoPc + 1) =>
    /\ contains(issues', NeutralIssue) <=> issues = <<>>
    /\ issues # <<>> => issues' = issues
    /\ ecoScore' = IF issues = <<>> THEN ecoScore + 5 ELSE ecoScore
    /\ ecoScore = clamp(ecoScore)

\* the report has an issue and a suggestion
NeverEmpty == ecoReturned => (issues # <<>> /\ suggestions # <<>>)

\* C26: for every input, localEcoAnalysis returns non-empty issues and
\* non-empty suggestions; the neutral 'No obvious efficiency issues detected'
\* entry is present exactly when no rule (the large-file rule included)
\* appended an issue; and the bonus of 5 is added, after clamping, exactly in
\* that case.
C26_EcoFallbacks == [][FallbackStep]_vars /\ []NeverEmpty

\* a report with the neutral entry, the bonus and a generic suggestion
C26_Witness ==
  /\ ecoReturned
  /\ code # {}
  /\ issues = <<NeutralIssue>>
  /\ suggestions = <<genericSuggestion(ecoLanguage)>>
  /\ ecoScore = clamp(unclamped([baseScore |-> baseScore, issues |-> <<>>],
                                code)) + 5

\* a loop header starts at character j
loopHeadAt(line, j) ==
  headAt(line, j, <<"f", "o", "r">>)
    \/ headAt(line, j, <<"w", "h", "i", "l", "e">>)

\* the braces of a line read character by character from j on: open holds,
\* for every block that is open, whether it is the block of a loop
RECURSIVE bracesOf(_, _, _)
bracesOf(line, j, s) ==
  IF j > Len(line) THEN s
  ELSE IF loopHeadAt(line, j)
  THEN bracesOf(line, j + 1, [s EXCEPT !.pending = TRUE])
  ELSE IF line[j] = "{"
  THEN bracesOf(line, j + 1,
                [s EXCEPT !.open = Append(s.open, s.pending),
                          !.pending = FALSE,
                          !.nested = s.nested
                            \/ (s.pending /\ \E k \in 1..Len(s.open) : s.open[k])])
  ELSE IF line[j] = "}"
  THEN bracesOf(line, j + 1,
                [s EXCEPT !.open = popped(s.open),
                          !.balanced = s.balanced /\ s.open # <<>>])
  ELSE bracesOf(line, j + 1, s)

RECURSIVE bracesFrom(_, _, _)
bracesFrom(lines, i, s) ==
  IF i > Len(lines) THEN s
  ELSE bracesFrom(lines, i + 1, bracesOf(lines[i], 1, s))

bracesOfText(lines) ==
  bracesFrom(lines, 1, [open |-> <<>>, pending |-> FALSE, balanced |-> TRUE,
                        nested |-> FALSE])

\* every block is closed, and no loop is opened inside the block of a loop
neverNested(lines) ==
  /\ bracesOfText(lines).balanced
  /\ bracesOfText(lines).open = <<>>
  /\ ~bracesOfText(lines).nested

\* C27: for input in which loops are never lexically nested (every loop's
\* block is closed before the next loop header, with balanced braces, possibly
\* containing if/else blocks), the nested-loop counter of localEcoAnalysis is 0
\* and no nested-loop issue or deduction is produced.
C27_NoNestingNoCount ==
  (returnValue # [none |-> TRUE] /\ "lines" \in DOMAIN args
     /\ neverNested(args.lines)) =>
    /\ returnValue.nestedLoopCount = 0
    /\ returnValue.issues = <<>>
    /\ returnValue.delta = 0

\* the entry is the one addFile makes of its content
ownEntry(entry) ==
  /\ entry.path = StorePath
  /\ entry.content \in StoreTexts
  /\ \E random \in StoreRuns :
       entry.embedding = generateTextEmbedding(entry.content, random)

\* a call changes the store by one entry pushed at the end, or, when it is
\* clear, by emptying it; search and getFiles leave it as it is
StoreStep ==
  /\ files' # files =>
       \/ files' = <<>>
       \/ /\ Len(files') = Len(files) + 1
          /\ SubSeq(files', 1, Len(files)) = files
          /\ ownEntry(files'[Len(files')])
  /\ searched' # searched => files' = files

\* C28: after any sequence of addFile, search, getFiles and clear calls on a
\* VectorStore, the stored entries are exactly the addFile calls made since
\* the last clear, in call order, each with its own path, content and
\* embedding (adding a path that is already present appends a second entry);
\* search and getFiles leave the store unchanged, and clear leaves it empty.
C28_StoreIsAppendOnly == [][StoreStep]_vars

\* two entries of one path, in the order of their calls, after a search and
\* a getFiles that returned both
C28_Witness ==
  /\ Len(files) = 2
  /\ files[1].path = files[2].path
  /\ files[1].content = "b"
  /\ files[2].content = "a"
  /\ "returned" \in DOMAIN searched
  /\ "query" \notin DOMAIN searched
  /\ searched.returned = <<[path |-> StorePath, content |-> "b"],
                           [path |-> StorePath, content |-> "a"]>>

\* the files of a folder that handleFolderSelect loads, as path and content
RECURSIVE loadable(_)
loadable(folder) ==
  IF folder = <<>> THEN <<>>
  ELSE IF Head(folder).kind = "source"
  THEN <<[path |-> Head(folder).path, content |-> Head(folder).content]>>
         \o loadable(Tail(folder))
  ELSE loadable(Tail(folder))

\* what getFiles shows of a store
shown(store) ==
  [i \in 1..Len(store) |->
     [path |-> store[i].path, content |-> store[i].content]]

\* the store holds files of one selection only
unmixed(store) ==
  \E folder \in Folders :
    \A i \in 1..Len(store) :
      \E j \in 1..Len(folder) : store[i].path = folder[j].path

\* when an invocation finishes, the store and loadedFiles hold the files of
\* its selection
FinishStep ==
  \A k \in 1..Len(selections) :
    (selections[k].at # "done" /\ selections'[k].at = "done") =>
      /\ shown(files') = loadable(selections[k].files)
      /\ loadedFiles' = shown(files')

\* a search meets a store of one selection
SearchStep == searched' # searched => unmixed(files)

\* C29: whenever a handleFolderSelect invocation finishes, the shared
\* vectorStore holds exactly the files of that folder selection, the same set
\* that loadedFiles shows, even when a second folder selection starts while
\* the first is still awaiting file reads; and no search ever runs over a
\* store that mixes files of two selections.
C29_StoreFollowsSelection == [][FinishStep /\ SearchStep]_vars

\* C30: in the Security Analyzer and Eco Analyzer views, over any sequence of
\* toggle, key-edit and analyze actions, the badge shown with a displayed
\* result reads 'AI-Enhanced' only if that result was produced by the remote
\* path and 'Local Analysis' only if it was produced by the local engine.
C30_BadgeNamesThePath ==
  (callPc = "done" /\ analysis.view \in SwitchedViews) =>
    /\ badge(analysis.view) = "AI-Enhanced" => path = "remote"
    /\ badge(analysis.view) = "Local Analysis" => path = "local"

====
